---- MODULE Spec2Model ----
(***************************************************************************)
(* A model of the content negotiation library freerware/negotiator: the   *)
(* header primitives, the RVSA/1.0 and Apache httpd choosers, and the     *)
(* transparent and proactive negotiators.                                 *)
(*                                                                         *)
(* One call of Negotiate (or of Choose) is one action.  The inputs of the *)
(* call (negotiator configuration, request, candidate representations)    *)
(* are drawn by the initial predicate; the action computes what the call  *)
(* returns and what it writes to the response writer.  Calls that run     *)
(* concurrently are modelled step by step, each with its own request,     *)
(* candidates and response writer.  One call of a function of package     *)
(* header is one action too, request holding the arguments of the call    *)
(* and result what it returned.                                            *)
(*                                                                         *)
(* Go strings that the code inspects character by character (URLs) are    *)
(* sequences of one-character strings.  Quality values (float32 in the    *)
(* code) are exact decimal numbers.                                        *)
(***************************************************************************)
EXTENDS Integers, Sequences, FiniteSets, TLC

VARIABLES
    pc,          \* "ready" before the call, "done" after it returned
    negotiator,  \* the configuration held by the negotiator (or chooser)
    request,     \* ctx.Request: URL and Header
    reps,        \* the candidate representations handed to the call
    response,    \* ctx.ResponseWriter: status, headers, body
    result,      \* what the call returned: error, panic, chosen candidate
    trace,       \* what the call did on the way: branch, chooser calls
    defaults     \* the package-level default headers all calls share

vars == <<pc, negotiator, request, reps, response, result, trace, defaults>>

(***************************************************************************)
(* Bounds of the model.                                                    *)
(***************************************************************************)
MaxReps == 2

(***************************************************************************)
(* Generic helpers.                                                        *)
(***************************************************************************)
Range(s) == {s[i] : i \in DOMAIN s}

SeqsUpTo(S, n) == UNION {[1..k -> S] : k \in 0..n}

Max(a, b) == IF a >= b THEN a ELSE b

Abs(a) == IF a < 0 THEN 0 - a ELSE a

\* A value computed once and handed on: body(v).
With(v, body(_)) == body(v)

\* strings.TrimRight(s, cutset) for a one-character cutset.
RECURSIVE TrimRight(_, _)
TrimRight(s, c) ==
    IF Len(s) > 0 /\ s[Len(s)] = c
    THEN TrimRight(SubSeq(s, 1, Len(s) - 1), c)
    ELSE s

\* strings.LastIndex(s, c): 0-based index of the last c, or -1.
LastIndex(s, c) ==
    LET I == {i \in DOMAIN s : s[i] = c}
    IN  IF I = {} THEN 0 - 1 ELSE (CHOOSE i \in I : \A j \in I : j <= i) - 1

\* strings.ToLower on the strings of the model.
ToLower(s) ==
    CASE s = "GUESS-SMALL" -> "guess-small"
      [] s = "UTF8"        -> "utf8"
      [] s = "GZIP"        -> "gzip"
      [] s = "UTF-8"       -> "utf-8"
      [] s = "FR"          -> "fr"
      [] s = "FOO"         -> "foo"
      [] s = "TEXT"        -> "text"
      [] s = "HTML"        -> "html"
      [] OTHER             -> s

\* r.Header[name]: the values of a header, nil (empty) when it is absent.
HeaderValues(r, name) ==
    IF name \in DOMAIN r.Header THEN r.Header[name] ELSE <<>>

(***************************************************************************)
(* Decimal numbers.  A float32 of the code is the exact decimal n / 10^d, *)
(* kept normalised (no trailing zero in n, and 0 is 0 / 10^0), so that    *)
(* equal numbers are equal records.  Only non-negative numbers occur.     *)
(***************************************************************************)
RECURSIVE Pow10(_)
Pow10(k) == IF k = 0 THEN 1 ELSE 10 * Pow10(k - 1)

RECURSIVE Dec(_, _)
Dec(n, d) ==
    IF n = 0 THEN [n |-> 0, d |-> 0]
    ELSE IF d > 0 /\ n % 10 = 0 THEN Dec(n \div 10, d - 1)
    ELSE [n |-> n, d |-> d]

DecLess(a, b) ==
    LET d == Max(a.d, b.d)
    IN  a.n * Pow10(d - a.d) < b.n * Pow10(d - b.d)

\* float32 multiplication.
DecMul(a, b) == Dec(a.n * b.n, a.d + b.d)

\* strconv.ParseFloat on the number texts of the model: ok is false when the
\* text is no number, v is its value, frac the value of the text from the
\* decimal point on, decimals the number of fractional digits.
NumberText(s) ==
    CASE s = "1"      -> [ok |-> TRUE, v |-> Dec(1, 0), frac |-> Dec(0, 0), decimals |-> 0]
      [] s = "1.0"    -> [ok |-> TRUE, v |-> Dec(1, 0), frac |-> Dec(0, 0), decimals |-> 1]
      [] s = "2.0"    -> [ok |-> TRUE, v |-> Dec(2, 0), frac |-> Dec(0, 0), decimals |-> 1]
      [] s = "0"      -> [ok |-> TRUE, v |-> Dec(0, 0), frac |-> Dec(0, 0), decimals |-> 0]
      [] s = "0.5"    -> [ok |-> TRUE, v |-> Dec(5, 1), frac |-> Dec(5, 1), decimals |-> 1]
      [] s = "0.8"    -> [ok |-> TRUE, v |-> Dec(8, 1), frac |-> Dec(8, 1), decimals |-> 1]
      [] s = "0.001"  -> [ok |-> TRUE, v |-> Dec(1, 3), frac |-> Dec(1, 3), decimals |-> 3]
      [] s = "0.0004" -> [ok |-> TRUE, v |-> Dec(4, 4), frac |-> Dec(4, 4), decimals |-> 4]
      [] s = "1.5"    -> [ok |-> TRUE, v |-> Dec(15, 1), frac |-> Dec(5, 1), decimals |-> 1]
      [] OTHER        -> [ok |-> FALSE, v |-> Dec(0, 0), frac |-> Dec(0, 0), decimals |-> 0]

ParseFloat(s) == NumberText(s)

(***************************************************************************)
(* header.QualityValue                                                     *)
(***************************************************************************)
QualityValueMinimum == Dec(0, 0)

QualityValueMaximum == Dec(1, 0)

\* NewQualityValue: the value, or ErrInvalidQualityValue outside [0, 1].
NewQualityValue(qvalue) ==
    LET tooLow  == DecLess(qvalue, QualityValueMinimum)
        tooHigh == DecLess(QualityValueMaximum, qvalue)
    IN  IF tooLow \/ tooHigh
        THEN [err |-> "ErrInvalidQualityValue", v |-> Dec(0, 0)]
        ELSE [err |-> "", v |-> qvalue]

\* QualityValue.Round(scale): math.Round rounds half away from zero.  A
\* numerator stays far below 5 * 10^8, so cutting more than eight digits
\* leaves zero.
Round(qv, scale) ==
    LET sc == IF scale < 1 THEN 0 ELSE scale
        k  == qv.d - sc
    IN  IF k <= 0 THEN qv
        ELSE IF k > 8 THEN Dec(0, 0)
        ELSE Dec((qv.n + (Pow10(k) \div 2)) \div Pow10(k), sc)

QVEquals(qv, q) == Round(qv, 3) = Round(q, 3)

QVLessThan(qv, q) == DecLess(Round(qv, 3), Round(q, 3))

QVGreaterThan(qv, q) == DecLess(Round(q, 3), Round(qv, 3))

Multiply(qv, q) == DecMul(qv, q)

\* sort.Slice as used by the library.  On the short slices of the model
\* (fewer than seven elements) sort.Slice is an insertion sort, which for the
\* comparators of the library (each compares a key) is the stable sort.
StableSort(s, less(_, _)) ==
    LET rank(i) == Cardinality({j \in DOMAIN s :
                        \/ less(s[j], s[i])
                        \/ (~less(s[i], s[j]) /\ j < i)}) + 1
    IN  [p \in DOMAIN s |-> s[CHOOSE i \in DOMAIN s : rank(i) = p]]

\* representation.Set.Where
Where(s, p(_)) == SelectSeq(s, p)

(***************************************************************************)
(* Media types and media ranges.  The text of a media type or media range *)
(* is the record mime.ParseMediaType reads from it: kind "ok" with type,   *)
(* subtype and parameters (q among them), kind "empty" for the empty       *)
(* string and kind "bad" for a text mime.ParseMediaType rejects.           *)
(***************************************************************************)
NoParams == [k \in {} |-> ""]

MediaText(t, subT, params) == [kind |-> "ok", t |-> t, subT |-> subT, params |-> params]

EmptyText == [kind |-> "empty", t |-> "", subT |-> "", params |-> NoParams]

BadText == [kind |-> "bad", t |-> "", subT |-> "", params |-> NoParams]

\* media_range.go parse: mime.ParseMediaType fails on "" and on a bad text,
\* and returns the type and subtype in lower case.
parse(m) ==
    IF m.kind = "ok"
    THEN [err |-> "", t |-> ToLower(m.t), subT |-> ToLower(m.subT), params |-> m.params]
    ELSE [err |-> "mime", t |-> "", subT |-> "", params |-> NoParams]

NoMediaRange == [t |-> "", subT |-> "", params |-> NoParams, qValue |-> Dec(0, 0)]

parseMediaRange(m) ==
    IF m.kind = "empty" THEN [err |-> "ErrEmptyMediaRange", mr |-> NoMediaRange]
    ELSE
    With(parse(m), LAMBDA p :
    IF p.err # "" THEN [err |-> p.err, mr |-> NoMediaRange]
    ELSE
    LET mr == [t |-> p.t, subT |-> p.subT, params |-> p.params, qValue |-> Dec(1, 0)] IN
    IF "q" \in DOMAIN p.params
    THEN With(ParseFloat(p.params["q"]), LAMBDA v :
         IF ~v.ok THEN [err |-> "strconv", mr |-> NoMediaRange]
         ELSE With(NewQualityValue(v.v), LAMBDA qv :
              IF qv.err # "" THEN [err |-> qv.err, mr |-> NoMediaRange]
              ELSE [err |-> "", mr |-> [mr EXCEPT !.qValue = qv.v]]))
    ELSE [err |-> "", mr |-> mr])

defaultMediaRange == [t |-> "*", subT |-> "*", params |-> NoParams, qValue |-> QualityValueMaximum]

MediaRangeHasParams(mr) == \E k \in DOMAIN mr.params : k # "q"

\* MediaRange.Compatible
MediaRangeCompatible(mr, mediaType) ==
    LET p == parse(mediaType) IN
    IF p.err # "" THEN [c |-> FALSE, err |-> p.err]
    ELSE
    LET matchedType    == ToLower(mr.t) = ToLower(p.t) \/ mr.t = "*"
        matchedSubType == ToLower(mr.subT) = ToLower(p.subT) \/ mr.subT = "*"
        matchedParams  ==
            IF MediaRangeHasParams(mr)
            THEN \A k \in DOMAIN mr.params :
                    k \in DOMAIN p.params /\ mr.params[k] = p.params[k]
            ELSE TRUE
    IN  [c |-> matchedType /\ matchedSubType /\ matchedParams, err |-> ""]

\* The precedence that leaves the q parameter out of the count.
PrecedenceWithoutQ(mr) ==
    IF mr.t = "*" /\ mr.subT = "*" THEN 0 + Cardinality(DOMAIN mr.params \ {"q"})
    ELSE IF mr.subT = "*" THEN 1 + Cardinality(DOMAIN mr.params \ {"q"})
    ELSE 2 + Cardinality(DOMAIN mr.params \ {"q"})

\* MediaRange.Precedence
Precedence(mr) ==
    IF mr.t = "*" /\ mr.subT = "*" THEN 0 + Cardinality(DOMAIN mr.params)
    ELSE IF mr.subT = "*" THEN 1 + Cardinality(DOMAIN mr.params)
    ELSE 2 + Cardinality(DOMAIN mr.params)

(***************************************************************************)
(* header.Accept: a sequence of media ranges.                              *)
(***************************************************************************)
DefaultAccept == <<defaultMediaRange>>

EmptyAccept == <<>>

\* The first parse error among the texts, "" when all parse.
RECURSIVE FirstErr(_)
FirstErr(parsed) ==
    IF parsed = <<>> THEN ""
    ELSE IF Head(parsed).err # "" THEN Head(parsed).err
    ELSE FirstErr(Tail(parsed))

NewAccept(accept) ==
    IF Len(accept) = 0 THEN [err |-> "", h |-> EmptyAccept]
    ELSE
    With([i \in DOMAIN accept |-> parseMediaRange(accept[i])], LAMBDA parsed :
    With(FirstErr(parsed), LAMBDA err :
    IF err # "" THEN [err |-> err, h |-> EmptyAccept]
    ELSE [err |-> "", h |-> [i \in DOMAIN accept |-> parsed[i].mr]]))

MediaRangeLess(f, s) ==
    IF QVEquals(f.qValue, s.qValue)
    THEN Precedence(f) > Precedence(s)
    ELSE QVGreaterThan(f.qValue, s.qValue)

\* Accept.MediaRanges
MediaRanges(a) == StableSort(a, MediaRangeLess)

\* The first index of s at which stop holds, 0 when there is none.
FirstIndex(s, stop(_)) ==
    IF \E i \in DOMAIN s : stop(s[i])
    THEN CHOOSE i \in DOMAIN s : stop(s[i]) /\ \A j \in 1..(i - 1) : ~stop(s[j])
    ELSE 0

\* Accept.Compatible: walks the sorted ranges and returns at the first range
\* that is compatible or fails.
AcceptCompatible(a, mediaType) ==
    LET hit(r) == \E x \in {MediaRangeCompatible(r, mediaType)} : x.err # "" \/ x.c IN
    With(MediaRanges(a), LAMBDA rs :
    With(FirstIndex(rs, hit), LAMBDA i :
        IF i = 0
        THEN IF Len(rs) = 0 THEN [c |-> FALSE, err |-> ""]
             ELSE MediaRangeCompatible(rs[Len(rs)], mediaType)
        ELSE MediaRangeCompatible(rs[i], mediaType)))

AcceptIsEmpty(a) == Len(a) = Len(EmptyAccept)

(***************************************************************************)
(* Language tags and language ranges.  golang.org/x/text/language is a    *)
(* library the code calls: the model keeps what the code depends on.       *)
(* language.Parse fails on the empty string and on an ill-formed tag; the  *)
(* matcher built over [Und, tag] picks index 1 for a tag of the same       *)
(* primary language and falls back to index 0 otherwise.                   *)
(***************************************************************************)
PrimaryLanguage(tag) ==
    CASE tag = "en"    -> "en"
      [] tag = "en-US" -> "en"
      [] tag = "fr"    -> "fr"
      [] tag = "FR"    -> "fr"
      [] OTHER         -> ""

\* language.Parse(tag) returns no error.
LanguageParses(tag) == PrimaryLanguage(tag) # ""

defaultLanguageRange == [lrange |-> "*", tag |-> "und", qValue |-> QualityValueMaximum]

LanguageRangeIsWildcard(lr) == lr.lrange = "*"

NoLanguageRange == [lrange |-> "", tag |-> "und", qValue |-> Dec(0, 0)]

\* NewLanguageRange.  The text of a range is the tag or "*" with the text of
\* its q parameter ("" when it has none).
NewLanguageRange(languageRange) ==
    IF languageRange.name = "" /\ languageRange.q = ""
    THEN [err |-> "ErrEmptyLanguageRange", v |-> NoLanguageRange]
    ELSE
    With(ToLower(languageRange.name), LAMBDA r :
    IF r # "*" /\ ~LanguageParses(r) THEN [err |-> "language", v |-> NoLanguageRange]
    ELSE IF languageRange.q = ""
    THEN [err |-> "",
          v |-> [lrange |-> r, tag |-> IF r = "*" THEN "und" ELSE r, qValue |-> Dec(1, 0)]]
    ELSE IF ~ParseFloat(languageRange.q).ok THEN [err |-> "syntax", v |-> NoLanguageRange]
    ELSE LET qv == NewQualityValue(ParseFloat(languageRange.q).v) IN
         IF qv.err # "" THEN [err |-> qv.err, v |-> NoLanguageRange]
         ELSE [err |-> "",
               v |-> [lrange |-> r, tag |-> IF r = "*" THEN "und" ELSE r,
                      qValue |-> qv.v]])

\* LanguageRange.Compatible
LanguageRangeCompatible(lr, tag) ==
    IF ~LanguageParses(tag) THEN FALSE
    ELSE IF LanguageRangeIsWildcard(lr) THEN TRUE
    ELSE PrimaryLanguage(lr.tag) = PrimaryLanguage(tag)

DefaultAcceptLanguage == <<defaultLanguageRange>>

EmptyAcceptLanguage == <<>>

LanguageRangeLess(f, s) == QVGreaterThan(f.qValue, s.qValue)

\* NewAcceptLanguage.  An entry of the header is a tag with the text of its
\* weight ("" when it has none).  language.ParseAcceptLanguage fails on an
\* ill-formed tag or weight, drops the entries of weight 0 and sorts the
\* others on weight; the range text is the tag followed by the weight.
NewAcceptLanguage(acceptLanguage) ==
    IF Len(acceptLanguage) = 0 THEN [err |-> "", h |-> EmptyAcceptLanguage]
    ELSE
    LET weight(e) == IF e.q = "" THEN Dec(1, 0) ELSE ParseFloat(e.q).v
        bad(e)    == ~LanguageParses(e.tag) \/ (e.q # "" /\ ~ParseFloat(e.q).ok)
        kept(e)   == DecLess(Dec(0, 0), weight(e))
        heavier(f, s) == DecLess(weight(s), weight(f))
    IN  IF \E i \in DOMAIN acceptLanguage : bad(acceptLanguage[i])
        THEN [err |-> "language", h |-> EmptyAcceptLanguage]
        ELSE
        With(StableSort(SelectSeq(acceptLanguage, kept), heavier), LAMBDA entries :
        With([i \in DOMAIN entries |-> NewQualityValue(weight(entries[i]))], LAMBDA qvs :
        With(FirstErr(qvs), LAMBDA err :
            IF err # "" THEN [err |-> err, h |-> EmptyAcceptLanguage]
            ELSE [err |-> "",
                  h |-> [i \in DOMAIN entries |->
                            [lrange |-> "tag;q", tag |-> entries[i].tag,
                             qValue |-> qvs[i].v]]])))

\* AcceptLanguage.LanguageRanges
LanguageRanges(l) == StableSort(l, LanguageRangeLess)

\* AcceptLanguage.Compatible
AcceptLanguageCompatible(l, tag) ==
    \E i \in DOMAIN l : LanguageRangeCompatible(l[i], tag)

AcceptLanguageIsEmpty(l) == Len(l) = Len(EmptyAcceptLanguage)

(***************************************************************************)
(* Charset ranges and header.AcceptCharset.  The text of a charset range   *)
(* is its name with the text of its q parameter ("" when it has none).     *)
(***************************************************************************)
\* The q texts the range expressions match: one digit and at most three
\* fractional digits.
MatchesQ(q) == q = "" \/ (ParseFloat(q).ok /\ ParseFloat(q).decimals <= 3)

\* The names the range expressions match: letters, digits and hyphens, or "*".
MatchesName(name) == name \notin {"", "bad name"}

defaultCharsetRange == [r |-> "*", qValue |-> QualityValueMaximum]

NoCharsetRange == [r |-> "", qValue |-> Dec(0, 0)]

NewCharsetRange(charset) ==
    IF charset.name = "" /\ charset.q = ""
    THEN [err |-> "ErrEmptyCharsetRange", v |-> NoCharsetRange]
    ELSE IF ~(MatchesName(charset.name) /\ MatchesQ(charset.q))
    THEN [err |-> "ErrInvalidCharsetRange", v |-> NoCharsetRange]
    ELSE IF charset.q # ""
    THEN LET qv == NewQualityValue(ParseFloat(charset.q).v) IN
         IF qv.err # "" THEN [err |-> qv.err, v |-> NoCharsetRange]
         ELSE [err |-> "", v |-> [r |-> ToLower(charset.name), qValue |-> qv.v]]
    ELSE [err |-> "", v |-> [r |-> ToLower(charset.name), qValue |-> Dec(1, 0)]]

CharsetRangeIsWildcard(c) == c.r = "*"

\* CharsetRange.Compatible
CharsetRangeCompatible(c, charset) ==
    IF CharsetRangeIsWildcard(c) THEN TRUE
    ELSE ToLower(c.r) = ToLower(charset)

\* A default Accept-Charset of two ranges, the less preferred one first.
DefaultAcceptCharsetUnsorted == <<[r |-> "ascii", qValue |-> Dec(5, 1)], defaultCharsetRange>>

DefaultAcceptCharset == <<defaultCharsetRange>>

EmptyAcceptCharset == <<>>

NewAcceptCharset(acceptCharset) ==
    IF Len(acceptCharset) = 0 THEN [err |-> "", h |-> EmptyAcceptCharset]
    ELSE
    With([i \in DOMAIN acceptCharset |-> NewCharsetRange(acceptCharset[i])], LAMBDA parsed :
    With(FirstErr(parsed), LAMBDA err :
    IF err # "" THEN [err |-> err, h |-> EmptyAcceptCharset]
    ELSE [err |-> "", h |-> [i \in DOMAIN acceptCharset |-> parsed[i].v]]))

CharsetRangeLess(f, s) == QVGreaterThan(f.qValue, s.qValue)

\* AcceptCharset.CharsetRanges
CharsetRanges(c) == StableSort(c, CharsetRangeLess)

\* AcceptCharset.Compatible
AcceptCharsetCompatible(c, charset) ==
    \E i \in DOMAIN c : CharsetRangeCompatible(c[i], charset)

AcceptCharsetIsEmpty(c) == Len(c) = Len(EmptyAcceptCharset)

\* The package-level variables header.DefaultAccept,
\* header.DefaultAcceptLanguage and header.DefaultAcceptCharset.
PackageDefaults ==
    [Accept |-> DefaultAccept, AcceptLanguage |-> DefaultAcceptLanguage,
     AcceptCharset |-> DefaultAcceptCharset]

(***************************************************************************)
(* Content coding ranges and header.AcceptEncoding.  The text of a range   *)
(* is the coding with the text of its q parameter ("" when it has none).   *)
(***************************************************************************)
contentCodings == {"gzip", "x-gzip", "deflate", "compress", "x-compress", "identity", "*"}

defaultContentCodingRange == [coding |-> "*", qValue |-> QualityValueMaximum]

NoContentCodingRange == [coding |-> "", qValue |-> Dec(0, 0)]

\* NewContentCodingRange: the q value is read from the fractional digits of
\* the q parameter alone.
NewContentCodingRange(contentCoding) ==
    IF contentCoding.name = "" /\ contentCoding.q = ""
    THEN [err |-> "ErrEmptyContentCodingRange", v |-> NoContentCodingRange]
    ELSE IF ~(MatchesName(contentCoding.name) /\ MatchesQ(contentCoding.q))
    THEN [err |-> "ErrInvalidContentCodingRange", v |-> NoContentCodingRange]
    ELSE IF contentCoding.name \notin contentCodings
    THEN [err |-> "ErrInvalidContentCodingRange", v |-> NoContentCodingRange]
    ELSE IF contentCoding.q # ""
    THEN LET qv == NewQualityValue(ParseFloat(contentCoding.q).frac) IN
         IF qv.err # "" THEN [err |-> qv.err, v |-> NoContentCodingRange]
         ELSE [err |-> "", v |-> [coding |-> contentCoding.name, qValue |-> qv.v]]
    ELSE [err |-> "", v |-> [coding |-> contentCoding.name, qValue |-> Dec(1, 0)]]

ContentCodingRangeIsWildcard(cc) == cc.coding = "*"

\* ContentCodingRange.Compatible
ContentCodingRangeCompatible(cc, coding) ==
    IF ToLower(coding) \notin contentCodings THEN FALSE
    ELSE IF ContentCodingRangeIsWildcard(cc) THEN TRUE
    ELSE ToLower(cc.coding) = ToLower(coding)

DefaultAcceptEncoding == <<defaultContentCodingRange>>

EmptyAcceptEncoding == <<>>

NewAcceptEncoding(acceptEncoding) ==
    IF Len(acceptEncoding) = 0 THEN [err |-> "", h |-> EmptyAcceptEncoding]
    ELSE
    With([i \in DOMAIN acceptEncoding |-> NewContentCodingRange(acceptEncoding[i])], LAMBDA parsed :
    With(FirstErr(parsed), LAMBDA err :
    IF err # "" THEN [err |-> err, h |-> EmptyAcceptEncoding]
    ELSE [err |-> "", h |-> [i \in DOMAIN acceptEncoding |-> parsed[i].v]]))

ContentCodingRangeLess(f, s) == QVGreaterThan(f.qValue, s.qValue)

\* AcceptEncoding.CodingRanges
CodingRanges(e) == StableSort(e, ContentCodingRangeLess)

AcceptEncodingIsEmpty(e) == Len(e) = Len(EmptyAcceptEncoding)

(***************************************************************************)
(* header.Negotiate: a sequence of directives.                             *)
(***************************************************************************)
NegotiateDirectiveGuessSmall == "guess-small"

NewNegotiateDirective(directive) ==
    IF directive = "" THEN [err |-> "ErrEmptyNegotiateDirective", v |-> ""]
    ELSE [err |-> "", v |-> directive]

EmptyNegotiateHeader == <<>>

NewNegotiate(directives) ==
    With([i \in DOMAIN directives |-> NewNegotiateDirective(directives[i])], LAMBDA parsed :
    With(FirstErr(parsed), LAMBDA err :
    IF err # "" THEN [err |-> err, h |-> EmptyNegotiateHeader]
    ELSE [err |-> "", h |-> [i \in DOMAIN directives |-> parsed[i].v]]))

\* Negotiate.Contains for one directive.
Contains(n, dir) == \E i \in DOMAIN n : ToLower(n[i]) = ToLower(dir)

IsRVSAVersion(d) == ParseFloat(d).ok

\* The test that takes any RVSA version for the version asked for.
ContainsRVSAAnyVersion(n, version) == \E i \in DOMAIN n : IsRVSAVersion(n[i])

\* Negotiate.ContainsRVSA
ContainsRVSA(n, version) ==
    \E i \in DOMAIN n : IsRVSAVersion(n[i]) /\ ToLower(version) = ToLower(n[i])

(***************************************************************************)
(* Feature negotiation: header.AcceptFeatures, header.FeatureSet and       *)
(* header.FeatureList.  A feature expression of the header is its type     *)
(* with its tag; an element of a feature list is its predicate (kind and   *)
(* tag, kind "invalid" for a text no predicate matches) with the texts of  *)
(* its true-improvement and false-degradation ("" when it has none).       *)
(***************************************************************************)
EmptyAcceptFeatures == <<>>

NewAcceptFeatures(acceptFeatures) ==
    IF Len(acceptFeatures) = 0 THEN [err |-> "", h |-> EmptyAcceptFeatures]
    ELSE [err |-> "", h |-> acceptFeatures]

AcceptFeaturesIsEmpty(f) == Len(f) = Len(EmptyAcceptFeatures)

EmptyFeatureSet == [t \in {} |-> <<>>]

\* FeatureTag.Equals: the tags of the model carry no quotes, and two tags are
\* equal when they are equal without regard to case.
FeatureTagEquals(t, tag) == ToLower(t) = ToLower(tag)

\* FeatureTagValue.Equals: the values of the model carry no quotes, and two
\* values are equal when they are the same text.
FeatureTagValueEquals(t, val) == t = val

\* strconv.Atoi and FeatureTagValue.IsNumeric on the value texts of the
\* model: the numeric ones are whole numbers.
ValueNumber(s) ==
    CASE s = "0" -> [ok |-> TRUE, n |-> 0]
      [] s = "1" -> [ok |-> TRUE, n |-> 1]
      [] s = "2" -> [ok |-> TRUE, n |-> 2]
      [] s = "5" -> [ok |-> TRUE, n |-> 5]
      [] s = "7" -> [ok |-> TRUE, n |-> 7]
      [] OTHER   -> [ok |-> FALSE, n |-> 0]

Atoi(s) == ValueNumber(s).n

IsNumeric(s) == ValueNumber(s).ok

\* FeatureSet.Contains
FeatureSetContains(s, tag) == \E t \in DOMAIN s : FeatureTagEquals(t, tag)

\* FeatureSet.Values: the values and whether the tag is present.  No set of
\* the model holds two tags that are equal to each other.
FeatureSetValues(s, tag) ==
    LET matching == {t \in DOMAIN s : FeatureTagEquals(t, tag)} IN
    IF matching = {} THEN [v |-> <<>>, ok |-> FALSE]
    ELSE [v |-> s[CHOOSE t \in matching : TRUE], ok |-> TRUE]

\* FeatureSet.Add: on a tag already present the loop variable hides the
\* argument, and the values already held are appended to themselves.
FeatureSetAdd(s, tag, values) ==
    IF ~FeatureSetContains(s, tag)
    THEN [t \in DOMAIN s \cup {tag} |-> IF t = tag THEN values ELSE s[t]]
    ELSE [t \in DOMAIN s |-> IF FeatureTagEquals(t, tag) THEN s[t] \o s[t] ELSE s[t]]

\* The text of a feature expression: an optional "!", the tag, and for
\* "tag=v", "tag={v}" and "tag!=v" the operator and the value, in braces or
\* not.
ExpressionText(neg, tag, op, value, braces) ==
    [neg |-> neg, tag |-> tag, op |-> op, value |-> value, braces |-> braces]

\* FeatureExpression.parseValue: the value and whether there is one.  The
\* value after "=" is taken only when it stands in braces.
parseValue(e) ==
    IF e.neg THEN [val |-> "", ok |-> FALSE]
    ELSE IF e.op = "!=" THEN [val |-> e.value, ok |-> TRUE]
    ELSE IF e.op = "=" /\ e.braces THEN [val |-> e.value, ok |-> TRUE]
    ELSE [val |-> "", ok |-> FALSE]

\* FeatureExpression.Type
ExpressionType(e) ==
    IF e.neg THEN "NOT_EXISTS"
    ELSE IF e.op = "!=" THEN "NOT_EQUALS"
    ELSE IF e.op = "="
    THEN IF parseValue(e).ok /\ e.braces THEN "EXCLUSIVE_EQUALS" ELSE "EQUALS"
    ELSE IF e.tag = "*" THEN "WILDCARD"
    ELSE "EXISTS"

\* The feature expression as AsFeatureSets reads it: Type(), Tag(), Value().
ParsedExpression(e) ==
    [type |-> ExpressionType(e), tag |-> e.tag, value |-> parseValue(e).val]

\* AcceptFeatures.AsFeatureSets
RECURSIVE AsFeatureSetsFrom(_, _, _)
AsFeatureSetsFrom(f, supported, unsupported) ==
    IF f = <<>> THEN [supported |-> supported, unsupported |-> unsupported]
    ELSE
    LET e == Head(f) IN
    CASE e.type = "EXISTS" ->
            AsFeatureSetsFrom(Tail(f), FeatureSetAdd(supported, e.tag, <<>>), unsupported)
      [] e.type = "NOT_EXISTS" ->
            AsFeatureSetsFrom(Tail(f), supported, FeatureSetAdd(unsupported, e.tag, <<>>))
      [] e.type \in {"EQUALS", "EXCLUSIVE_EQUALS"} ->
            AsFeatureSetsFrom(Tail(f), FeatureSetAdd(supported, e.tag, <<e.value>>),
                              unsupported)
      [] e.type = "NOT_EQUALS" ->
            AsFeatureSetsFrom(Tail(f), FeatureSetAdd(supported, e.tag, <<>>),
                              FeatureSetAdd(unsupported, e.tag, <<e.value>>))
      [] OTHER ->
            AsFeatureSetsFrom(Tail(f), supported, unsupported)

AsFeatureSets(f) == AsFeatureSetsFrom(f, EmptyFeatureSet, EmptyFeatureSet)

\* within.Evaluate: the highest numeric value of the tag lies in the range.
WithinEvaluate(w, supported) ==
    LET sValues == FeatureSetValues(supported, w.tag)
        numbers == IF IsNumeric(w.l) /\ IsNumeric(w.h)
                   THEN {Atoi(sValues.v[i]) : i \in {j \in DOMAIN sValues.v : IsNumeric(sValues.v[j])}}
                   ELSE {}
        highest == IF numbers = {} THEN 0 ELSE CHOOSE n \in numbers : \A m \in numbers : m <= n
    IN  sValues.ok /\ highest >= Atoi(w.l) /\ highest <= Atoi(w.h)

\* The evaluation in which absent holds of every tag that is not supported.
PredicateEvaluateAbsentOfUnknown(p, supported, unsupported) ==
    CASE p.kind = "exists" -> FeatureSetContains(supported, p.tag)
      [] p.kind = "absent" -> ~FeatureSetContains(supported, p.tag)
      [] OTHER -> FALSE

\* The Evaluate of a feature predicate: exists, absent, equals, notEquals
\* and within.
PredicateEvaluate(p, supported, unsupported) ==
    CASE p.kind = "exists" -> FeatureSetContains(supported, p.tag)
      [] p.kind = "absent" ->
            LET values == FeatureSetValues(unsupported, p.tag) IN
            ~FeatureSetContains(supported, p.tag) /\ values.ok /\ Len(values.v) = 0
      [] p.kind = "equals" ->
            LET sValues == FeatureSetValues(supported, p.tag) IN
            sValues.ok /\ \E i \in DOMAIN sValues.v : FeatureTagValueEquals(p.v, sValues.v[i])
      [] p.kind = "notEquals" ->
            LET sValues == FeatureSetValues(supported, p.tag) IN
            sValues.ok /\ ~\E i \in DOMAIN sValues.v : FeatureTagValueEquals(p.v, sValues.v[i])
      [] p.kind = "within" -> WithinEvaluate(p, supported)
      [] OTHER -> FALSE

\* predicateListElement.Evaluate and predicateBagListElement.Evaluate: a bag
\* holds when one of its predicates does.
Evaluate(element, supported, unsupported) ==
    IF element.kind = "bag"
    THEN \E i \in DOMAIN element.bag :
            PredicateEvaluate(element.bag[i], supported, unsupported)
    ELSE PredicateEvaluate(element, supported, unsupported)

TrueImprovement(element) ==
    IF element.t # "" THEN ParseFloat(element.t).v ELSE Dec(1, 0)

FalseDegradation(element) ==
    IF element.f # "" THEN ParseFloat(element.f).v
    ELSE IF element.t # "" THEN Dec(1, 0)
    ELSE Dec(0, 0)

\* NewFeatureList: fails on an element no predicate expression matches.
NewFeatureList(features) ==
    IF \E i \in DOMAIN features : features[i].kind = "invalid"
    THEN [err |-> "ErrInvalidPredicate", v |-> <<>>]
    ELSE [err |-> "", v |-> features]

\* FeatureList.QualityDegradation
RECURSIVE QualityDegradation(_, _, _)
QualityDegradation(fl, supported, unsupported) ==
    IF fl = <<>> THEN Dec(1, 0)
    ELSE LET element == fl[Len(fl)]
             before  == QualityDegradation(SubSeq(fl, 1, Len(fl) - 1), supported, unsupported)
         IN  IF Evaluate(element, supported, unsupported)
             THEN DecMul(before, TrueImprovement(element))
             ELSE DecMul(before, FalseDegradation(element))

(***************************************************************************)
(* representation.Base.  A representation is the record of its metadata    *)
(* with the number of bytes its serialised form has.                       *)
(***************************************************************************)
defaultMarshallers ==
    {<<"application", "json">>, <<"application", "xml">>, <<"application", "yaml">>,
     <<"text", "yaml">>, <<"text", "html">>}

defaultEncodingWriters == {"gzip", "x-gzip", "compress", "x-compress", "deflate"}

defaultEncodingReaders == {"gzip", "x-gzip", "compress", "x-compress", "deflate"}

Rep(ct, lang, charset, enc, loc, feats, qs, size) ==
    [contentType |-> ct, contentLanguage |-> lang, contentCharset |-> charset,
     contentEncoding |-> enc, contentLocation |-> loc, contentFeatures |-> feats,
     sourceQuality |-> qs, size |-> size]

\* Base.Bytes with Base.encode: the length of the serialised form, or the
\* error for a content type without marshaller or a coding without writer.
Bytes(r) ==
    LET ct        == r.contentType
        encodings == r.contentEncoding
    IN  IF ~(ct.kind = "ok" /\ <<ToLower(ct.t), ToLower(ct.subT)>> \in defaultMarshallers)
        THEN [err |-> "ErrUnsupportedContentType", len |-> 0]
        ELSE IF Len(encodings) < 1 \/ ToLower(encodings[1]) = "identity"
        THEN [err |-> "", len |-> r.size]
        ELSE IF \E i \in DOMAIN encodings : ToLower(encodings[i]) \notin defaultEncodingWriters
        THEN [err |-> "ErrUnsupportedContentEncoding", len |-> 0]
        ELSE [err |-> "", len |-> r.size]

(***************************************************************************)
(* Base.Bytes and Base.FromBytes on the bytes themselves.  A byte slice is *)
(* what it holds: the marshalled form of a value in a syntax, a complete   *)
(* stream of a compression format around other bytes, the header of such a *)
(* stream with nothing after it, or no bytes.  The payloads are small: a   *)
(* compressing writer holds all of them back until it is closed.           *)
(***************************************************************************)
NoBytes == [kind |-> "none"]

Marshalled(syntax, v) == [kind |-> "value", syntax |-> syntax, v |-> v]

Stream(format, inner) == [kind |-> "stream", format |-> format, inner |-> inner]

HeaderOnly(format) == [kind |-> "header", format |-> format]

\* What a reader yields whose source cannot be decompressed.
Unreadable == [kind |-> "unreadable"]

\* The syntax of the marshaller and unmarshaller registered for a content
\* type: encoding/json, encoding/xml or yaml.
Syntax(ct) ==
    CASE ToLower(ct.subT) = "json" -> "json"
      [] ToLower(ct.subT) \in {"xml", "html"} -> "xml"
      [] OTHER -> "yaml"

\* defaultUnmarshallers has the keys of defaultMarshallers.
SupportedContentType(ct) ==
    ct.kind = "ok" /\ <<ToLower(ct.t), ToLower(ct.subT)>> \in defaultMarshallers

\* The compression format behind a content coding: compress/gzip,
\* compress/zlib or compress/flate.
Format(e) ==
    CASE ToLower(e) \in {"gzip", "x-gzip"} -> "gzip"
      [] ToLower(e) \in {"compress", "x-compress"} -> "zlib"
      [] OTHER -> "flate"

\* What a writer that is never closed passes to the writer below it: the
\* gzip and zlib writers write their header with the first bytes they are
\* given, the flate writer writes nothing.
Unclosed(format, received) ==
    IF received = NoBytes \/ format = "flate" THEN NoBytes ELSE HeaderOnly(format)

\* What the writer of encodings[k] passes to the writer it wraps.  The last
\* writer is given b and closed; closing it closes no writer below.
RECURSIVE WriterOutput(_, _, _)
WriterOutput(encodings, k, b) ==
    IF k = Len(encodings) THEN Stream(Format(encodings[k]), b)
    ELSE Unclosed(Format(encodings[k]), WriterOutput(encodings, k + 1, b))

\* Base.encode
encode(r, b) ==
    LET encodings == r.contentEncoding IN
    IF \E i \in DOMAIN encodings : ToLower(encodings[i]) \notin defaultEncodingWriters
    THEN [err |-> "ErrUnsupportedContentEncoding", b |-> NoBytes]
    ELSE [err |-> "", b |-> WriterOutput(encodings, 1, b)]

\* Base.Bytes(out)
BaseBytes(r, out) ==
    IF ~SupportedContentType(r.contentType)
    THEN [err |-> "ErrUnsupportedContentType", b |-> NoBytes]
    ELSE IF Len(r.contentEncoding) < 1 \/ ToLower(r.contentEncoding[1]) = "identity"
    THEN [err |-> "", b |-> Marshalled(Syntax(r.contentType), out)]
    ELSE encode(r, Marshalled(Syntax(r.contentType), out))

\* gzip.NewReader and zlib.NewReader read the header of the stream from
\* their source and fail without it; flate.NewReader reads nothing.
ConstructorFails(format, source) ==
    /\ format \in {"gzip", "zlib"}
    /\ ~(source.kind \in {"stream", "header"} /\ source.format = format)

\* What the reader of a format yields from its source.
Decompressed(format, source) ==
    IF source.kind = "stream" /\ source.format = format THEN source.inner ELSE Unreadable

\* The loop of Base.decode from encodings[idx] down, source being what the
\* reader built last yields and deferred the number of deferred closes.  A
\* failing constructor leaves a nil reader, which the deferred closes call;
\* a deferred close replaces the error of an unsupported coding by its own
\* result, nil.
RECURSIVE decodeFrom(_, _, _, _)
decodeFrom(encodings, idx, source, deferred) ==
    IF idx = 0
    THEN IF source = Unreadable
         THEN [err |-> "read", panic |-> FALSE, b |-> NoBytes]
         ELSE [err |-> "", panic |-> FALSE, b |-> source]
    ELSE IF ToLower(encodings[idx]) \notin defaultEncodingReaders
    THEN [err |-> IF deferred > 0 THEN "" ELSE "ErrUnsupportedContentEncoding",
          panic |-> FALSE, b |-> NoBytes]
    ELSE IF ConstructorFails(Format(encodings[idx]), source)
    THEN [err |-> "header", panic |-> deferred > 0, b |-> NoBytes]
    ELSE decodeFrom(encodings, idx - 1,
                    Decompressed(Format(encodings[idx]), source), deferred + 1)

\* Base.decode
decode(r, b) == decodeFrom(r.contentEncoding, Len(r.contentEncoding), b, 0)

\* The unmarshaller of a syntax on the bytes b.
Unmarshal(syntax, b) ==
    IF b.kind = "value" /\ b.syntax = syntax
    THEN [err |-> "", panic |-> FALSE, v |-> b.v]
    ELSE [err |-> "unmarshal", panic |-> FALSE, v |-> ""]

\* Base.FromBytes(b, in): the value left in in.
BaseFromBytes(r, b) ==
    IF ~SupportedContentType(r.contentType)
    THEN [err |-> "ErrUnsupportedContentType", panic |-> FALSE, v |-> ""]
    ELSE IF Len(r.contentEncoding) > 0 /\ ToLower(r.contentEncoding[1]) # "identity"
    THEN With(decode(r, b), LAMBDA d :
         IF d.panic \/ d.err # "" THEN [err |-> d.err, panic |-> d.panic, v |-> ""]
         ELSE Unmarshal(Syntax(r.contentType), d.b))
    ELSE Unmarshal(Syntax(r.contentType), b)

(***************************************************************************)
(* The RVSA/1.0 chooser (rvsa1).  A chooser returns the index of the       *)
(* candidate it chose (0 for nil), an error, or panics.                    *)
(***************************************************************************)
Chosen(i) == [err |-> "", idx |-> i, panic |-> FALSE]

Failed(e) == [err |-> e, idx |-> 0, panic |-> FALSE]

Panicked == [err |-> "", idx |-> 0, panic |-> TRUE]

\* rvsa1.acceptQuality
rvsaAcceptQuality(rep, accept) ==
    IF rep.contentType.kind = "empty" THEN [q |-> QualityValueMaximum, wc |-> FALSE]
    ELSE IF AcceptIsEmpty(accept) THEN [q |-> QualityValueMaximum, wc |-> TRUE]
    ELSE
    LET hit(r) == \E x \in {MediaRangeCompatible(r, rep.contentType)} : x.c /\ x.err = "" IN
    With(MediaRanges(accept), LAMBDA rs :
    With(FirstIndex(rs, hit), LAMBDA i :
        IF i = 0 THEN [q |-> QualityValueMinimum, wc |-> FALSE]
        ELSE [q |-> rs[i].qValue, wc |-> rs[i].t = "*" \/ rs[i].subT = "*"]))

\* rvsa1.acceptLanguageQuality
rvsaAcceptLanguageQuality(rep, acceptLanguage) ==
    IF rep.contentLanguage = "" THEN [q |-> QualityValueMaximum, wc |-> FALSE]
    ELSE IF AcceptLanguageIsEmpty(acceptLanguage) THEN [q |-> QualityValueMaximum, wc |-> TRUE]
    ELSE
    LET hit(lr) == LanguageRangeCompatible(lr, rep.contentLanguage) IN
    With(FirstIndex(acceptLanguage, hit), LAMBDA i :
        IF i = 0 THEN [q |-> QualityValueMinimum, wc |-> FALSE]
        ELSE [q |-> acceptLanguage[i].qValue, wc |-> LanguageRangeIsWildcard(acceptLanguage[i])])

\* rvsa1.acceptCharsetQuality
rvsaAcceptCharsetQuality(rep, acceptCharset) ==
    IF rep.contentCharset = "" THEN [q |-> QualityValueMaximum, wc |-> FALSE]
    ELSE IF AcceptCharsetIsEmpty(acceptCharset) THEN [q |-> QualityValueMaximum, wc |-> TRUE]
    ELSE
    LET hit(c) == CharsetRangeCompatible(c, rep.contentCharset) IN
    With(CharsetRanges(acceptCharset), LAMBDA rs :
    With(FirstIndex(rs, hit), LAMBDA i :
        IF i = 0 THEN [q |-> QualityValueMinimum, wc |-> FALSE]
        ELSE [q |-> rs[i].qValue, wc |-> CharsetRangeIsWildcard(rs[i])]))

\* rvsa1.acceptFeatureQuality: panics on a feature list that does not parse.
rvsaAcceptFeatureQuality(rep, acceptFeature) ==
    IF Len(rep.contentFeatures) = 0
    THEN [q |-> QualityValueMaximum, wc |-> FALSE, panic |-> FALSE]
    ELSE IF AcceptFeaturesIsEmpty(acceptFeature)
    THEN [q |-> QualityValueMaximum, wc |-> TRUE, panic |-> FALSE]
    ELSE
    With(NewFeatureList(rep.contentFeatures), LAMBDA featureList :
    With(AsFeatureSets(acceptFeature), LAMBDA sets :
        IF featureList.err # "" THEN [q |-> Dec(0, 0), wc |-> FALSE, panic |-> TRUE]
        ELSE [q |-> QualityDegradation(featureList.v, sets.supported, sets.unsupported),
              wc |-> FALSE, panic |-> FALSE]))

\* rvsa1.overallQuality
rvsaOverallQuality(v) ==
    Round(DecMul(DecMul(DecMul(DecMul(v.qs, v.qt), v.qc), v.ql), v.qf), 5)

\* The ranked candidate rvsa1.Choose builds for the candidate at index i.
rvsaRanked(a, al, ac, af, rs, i) ==
    With(rvsaAcceptQuality(rs[i], a), LAMBDA qt :
    With(rvsaAcceptCharsetQuality(rs[i], ac), LAMBDA qc :
    With(rvsaAcceptLanguageQuality(rs[i], al), LAMBDA ql :
    With(rvsaAcceptFeatureQuality(rs[i], af), LAMBDA qf :
        [idx |-> i, qs |-> rs[i].sourceQuality, qt |-> qt.q, qc |-> qc.q, ql |-> ql.q,
         qf |-> qf.q, isDefinite |-> ~qt.wc /\ ~qc.wc /\ ~ql.wc /\ ~qf.wc,
         panic |-> qf.panic]))))

\* The order of lowest overall quality first.
rvsaLessAscending(v1, v2) == DecLess(rvsaOverallQuality(v1), rvsaOverallQuality(v2))

rvsaLess(v1, v2) == DecLess(rvsaOverallQuality(v2), rvsaOverallQuality(v1))

rvsaVariants(r, rs) ==
    LET a  == NewAccept(HeaderValues(r, "Accept"))
        al == NewAcceptLanguage(HeaderValues(r, "Accept-Language"))
        ac == NewAcceptCharset(HeaderValues(r, "Accept-Charset"))
        af == NewAcceptFeatures(HeaderValues(r, "Accept-Features"))
    IN  [i \in DOMAIN rs |-> rvsaRanked(a.h, al.h, ac.h, af.h, rs, i)]

\* The chooser that returns the candidate of highest overall quality whatever
\* its quality and definiteness are.
rvsaChooseHighest(r, rs) ==
    IF NewAccept(HeaderValues(r, "Accept")).err # "" THEN Failed("accept")
    ELSE IF NewAcceptLanguage(HeaderValues(r, "Accept-Language")).err # "" THEN Failed("language")
    ELSE IF NewAcceptCharset(HeaderValues(r, "Accept-Charset")).err # "" THEN Failed("charset")
    ELSE IF \E i \in DOMAIN rs : rvsaVariants(r, rs)[i].panic THEN Panicked
    ELSE IF Len(rs) = 0 THEN Chosen(0)
    ELSE Chosen(StableSort(rvsaVariants(r, rs), rvsaLess)[1].idx)

\* The error of the first of the four headers that does not parse, "" if none.
rvsaHeaderError(r) ==
    FirstErr(<<NewAccept(HeaderValues(r, "Accept")),
               NewAcceptLanguage(HeaderValues(r, "Accept-Language")),
               NewAcceptCharset(HeaderValues(r, "Accept-Charset")),
               NewAcceptFeatures(HeaderValues(r, "Accept-Features"))>>)

\* rvsa1.Choose
rvsaChoose(r, rs) ==
    With(rvsaHeaderError(r), LAMBDA err :
        IF err # "" THEN Failed(err)
        ELSE With(rvsaVariants(r, rs), LAMBDA variants :
            IF \E i \in DOMAIN variants : variants[i].panic THEN Panicked
            ELSE IF Len(variants) = 0 THEN Chosen(0)
            ELSE With(StableSort(variants, rvsaLess)[1], LAMBDA highest :
                IF DecLess(Dec(0, 0), rvsaOverallQuality(highest)) /\ highest.isDefinite
                THEN Chosen(highest.idx)
                ELSE Chosen(0))))

(***************************************************************************)
(* The Apache httpd chooser (httpd).                                       *)
(***************************************************************************)
\* strconv.ParseInt on the level texts of the model.
ParseInt(s) ==
    CASE s = "1" -> [ok |-> TRUE, v |-> 1]
      [] s = "2" -> [ok |-> TRUE, v |-> 2]
      [] OTHER   -> [ok |-> FALSE, v |-> 0]

\* httpd.acceptQuality
httpdAcceptQuality(rep, accept) ==
    IF rep.contentType.kind = "empty" \/ AcceptIsEmpty(accept) THEN QualityValueMaximum
    ELSE
    LET hit(r) == \E x \in {MediaRangeCompatible(r, rep.contentType)} : x.c /\ x.err = "" IN
    With(MediaRanges(accept), LAMBDA rs :
    With(FirstIndex(rs, hit), LAMBDA i :
        IF i = 0 THEN QualityValueMinimum ELSE rs[i].qValue))

\* httpd.acceptCharsetQuality
httpdAcceptCharsetQuality(rep, acceptCharset) ==
    IF rep.contentCharset = "" \/ AcceptCharsetIsEmpty(acceptCharset) THEN QualityValueMaximum
    ELSE
    LET hit(c) == CharsetRangeCompatible(c, rep.contentCharset) IN
    With(CharsetRanges(acceptCharset), LAMBDA rs :
    With(FirstIndex(rs, hit), LAMBDA i :
        IF i = 0 THEN QualityValueMinimum ELSE rs[i].qValue))

\* httpd.acceptLanguageQuality: the quality and the language order score.
httpdAcceptLanguageQuality(rep, acceptLanguage) ==
    IF rep.contentLanguage = "" \/ AcceptLanguageIsEmpty(acceptLanguage)
    THEN [q |-> QualityValueMaximum, los |-> 0]
    ELSE
    LET hit(lr) == LanguageRangeCompatible(lr, rep.contentLanguage) IN
    With(FirstIndex(acceptLanguage, hit), LAMBDA i :
        IF i = 0 THEN [q |-> QualityValueMinimum, los |-> 0]
        ELSE [q |-> acceptLanguage[i].qValue, los |-> Len(acceptLanguage) - (i - 1)])

\* httpd.acceptEncodingQuality
httpdAcceptEncodingQuality(rep, acceptEncoding) ==
    IF Len(rep.contentEncoding) = 0 \/ AcceptEncodingIsEmpty(acceptEncoding)
    THEN QualityValueMaximum
    ELSE
    LET hit(c) == \E j \in DOMAIN rep.contentEncoding :
                      ContentCodingRangeCompatible(c, rep.contentEncoding[j])
    IN
    With(CodingRanges(acceptEncoding), LAMBDA rs :
    With(FirstIndex(rs, hit), LAMBDA i :
        IF i = 0 THEN QualityValueMinimum ELSE rs[i].qValue))

\* The ranked candidate httpd.Choose builds for the candidate at index i.
httpdRanked(a, ae, al, ac, rs, i) ==
    With(httpdAcceptLanguageQuality(rs[i], al), LAMBDA l :
    [idx |-> i, rep |-> rs[i], qs |-> rs[i].sourceQuality,
     qt |-> httpdAcceptQuality(rs[i], a),
     qc |-> httpdAcceptCharsetQuality(rs[i], ac),
     qe |-> httpdAcceptEncodingQuality(rs[i], ae),
     ql |-> l.q, los |-> l.los])

\* The elimination test of httpd.Choose: the float32 values are compared as
\* they are.
shouldEliminate(v) ==
    \/ v.qt = QualityValueMinimum \/ v.qc = QualityValueMinimum
    \/ v.qe = QualityValueMinimum \/ v.ql = QualityValueMinimum

Filtered(vs) == [err |-> "", v |-> vs]

\* Set.First
First(vs) == vs[1]

\* The length the filters read from Bytes: that of the empty slice on error.
BytesLen(rep) == With(Bytes(rep), LAMBDA b : IF b.err = "" THEN b.len ELSE 0)

\* smallestContentLength: its order reads a length only from a failed
\* serialisation, so it compares 0 with 0 and leaves the order as it is.
smallestContentLength(variants) ==
    LET length(v)  == IF Bytes(v.rep).err # "" THEN BytesLen(v.rep) ELSE 0
        less(f, s) == length(f) > length(s)
    IN
    With(StableSort(variants, less), LAMBDA sorted :
    With(Bytes(First(sorted).rep), LAMBDA lowest :
        LET keep(v) == BytesLen(v.rep) = lowest.len IN
        IF lowest.err # "" THEN [err |-> lowest.err, v |-> <<>>]
        ELSE Filtered(Where(sorted, keep))))

bestEncoding(variants) ==
    LET less(f, s) == QVGreaterThan(f.qe, s.qe) IN
    With(StableSort(variants, less), LAMBDA sorted :
        LET highest == First(sorted)
            keep(v) == QVEquals(v.qe, highest.qe)
        IN  Filtered(Where(sorted, keep)))

\* The filter that drops the ISO-8859-1 candidates even when no other is left.
notISO88591DropsAll(variants) ==
    LET keep(v) == ToLower(v.rep.contentCharset) # "iso-8859-1" IN
    Filtered(Where(variants, keep))

notISO88591(variants) ==
    LET keep(v) == ToLower(v.rep.contentCharset) # "iso-8859-1"
        others  == Where(variants, keep)
    IN  IF Len(others) # 0 /\ Len(others) # Len(variants)
        THEN Filtered(others)
        ELSE Filtered(variants)

bestCharset(variants) ==
    LET less(f, s) == QVGreaterThan(f.qc, s.qc) IN
    With(StableSort(variants, less), LAMBDA sorted :
        LET highest == First(sorted)
            keep(v) == QVEquals(v.qc, highest.qc)
        IN  Filtered(Where(sorted, keep)))

bestSourceAndType(variants) ==
    LET score(v)   == Multiply(v.qs, v.qt)
        less(f, s) == QVGreaterThan(score(f), score(s)) IN
    With(StableSort(variants, less), LAMBDA sorted :
        LET highest == First(sorted)
            keep(v) == QVEquals(score(v), score(highest))
        IN  Filtered(Where(sorted, keep)))

bestLanguage(variants) ==
    LET less(f, s) == QVGreaterThan(f.ql, s.ql) IN
    With(StableSort(variants, less), LAMBDA sorted :
        LET highest == First(sorted)
            keep(v) == QVEquals(v.ql, highest.ql)
        IN  Filtered(Where(sorted, keep)))

\* bestLanguageOrder: sorts on the language order score ascending.
bestLanguageOrder(variants) ==
    LET less(f, s) == f.los < s.los IN
    With(StableSort(variants, less), LAMBDA sorted :
        LET highest == First(sorted)
            keep(v) == v.los = highest.los
        IN  Filtered(Where(sorted, keep)))

\* bestLevel: the text/html candidates that have a level, highest level
\* first, when there is one; fails on a content type or level that does not
\* parse.
bestLevel(variants) ==
    LET ct(v)       == v.rep.contentType
        hasLevel(v) == /\ ct(v).kind = "ok"
                       /\ ToLower(ct(v).t) = "text" /\ ToLower(ct(v).subT) = "html"
                       /\ "level" \in DOMAIN ct(v).params
        level(v)    == ParseInt(ct(v).params["level"])
        less(f, s)  == level(f).v > level(s).v
        badType     == \E i \in DOMAIN variants : ct(variants[i]).kind # "ok"
        badLevel    == \E i \in DOMAIN variants :
                          hasLevel(variants[i]) /\ ~level(variants[i]).ok
        firstBadType  == CHOOSE i \in DOMAIN variants :
                            /\ ct(variants[i]).kind # "ok"
                            /\ \A j \in 1..(i - 1) : ct(variants[j]).kind = "ok"
        firstBadLevel == CHOOSE i \in DOMAIN variants :
                            /\ hasLevel(variants[i]) /\ ~level(variants[i]).ok
                            /\ \A j \in 1..(i - 1) :
                                  ~(hasLevel(variants[j]) /\ ~level(variants[j]).ok)
        htmlWithLevel == Where(variants, hasLevel)
    IN  IF badType /\ (~badLevel \/ firstBadType <= firstBadLevel)
        THEN [err |-> "mime", v |-> <<>>]
        ELSE IF badLevel THEN [err |-> "strconv", v |-> <<>>]
        ELSE IF Len(htmlWithLevel) > 0 THEN Filtered(StableSort(htmlWithLevel, less))
        ELSE Filtered(variants)

NumFilters == 8

\* The filters of ApacheHTTPD, in their order.
ApplyFilter(k, variants) ==
    CASE k = 1 -> bestSourceAndType(variants)
      [] k = 2 -> bestLanguage(variants)
      [] k = 3 -> bestLanguageOrder(variants)
      [] k = 4 -> bestLevel(variants)
      [] k = 5 -> bestCharset(variants)
      [] k = 6 -> notISO88591(variants)
      [] k = 7 -> bestEncoding(variants)
      [] OTHER -> smallestContentLength(variants)

\* The filter loop of httpd.Choose from filter k on.
RECURSIVE RunFilters(_, _)
RunFilters(k, variants) ==
    IF k > NumFilters
    THEN IF Len(variants) = 0 THEN Panicked ELSE Chosen(First(variants).idx)
    ELSE IF Len(variants) = 0 THEN Chosen(0)
    ELSE With(ApplyFilter(k, variants), LAMBDA f :
         IF f.err # "" THEN Failed(f.err)
         ELSE IF Len(f.v) = 1 THEN Chosen(First(f.v).idx)
         ELSE RunFilters(k + 1, f.v))

\* The filters the loop of httpd.Choose applies from filter k on: for each the
\* set it is given and what it returns.
RECURSIVE FilterSteps(_, _)
FilterSteps(k, variants) ==
    IF k > NumFilters \/ Len(variants) = 0 THEN <<>>
    ELSE With(ApplyFilter(k, variants), LAMBDA f :
         <<[k |-> k, in |-> variants, out |-> f]>>
            \o (IF f.err # "" \/ Len(f.v) = 1 THEN <<>> ELSE FilterSteps(k + 1, f.v)))

\* The candidates httpd.Choose ranks, those it eliminates among them.
httpdVariants(r, rs) ==
    LET a  == NewAccept(HeaderValues(r, "Accept"))
        ae == NewAcceptEncoding(HeaderValues(r, "Accept-Encoding"))
        al == NewAcceptLanguage(HeaderValues(r, "Accept-Language"))
        ac == NewAcceptCharset(HeaderValues(r, "Accept-Charset"))
    IN  [i \in DOMAIN rs |-> httpdRanked(a.h, ae.h, al.h, ac.h, rs, i)]

\* The error of the first of the four headers that does not parse, "" if none.
httpdHeaderError(r) ==
    FirstErr(<<NewAccept(HeaderValues(r, "Accept")),
               NewAcceptEncoding(HeaderValues(r, "Accept-Encoding")),
               NewAcceptLanguage(HeaderValues(r, "Accept-Language")),
               NewAcceptCharset(HeaderValues(r, "Accept-Charset"))>>)

\* The filters one call of httpd.Choose applies.
httpdSteps(r, rs) ==
    LET kept(v) == ~shouldEliminate(v) IN
    IF httpdHeaderError(r) # "" THEN <<>>
    ELSE FilterSteps(1, Where(httpdVariants(r, rs), kept))

\* httpd.Choose
httpdChoose(r, rs) ==
    LET kept(v) == ~shouldEliminate(v) IN
    With(httpdHeaderError(r), LAMBDA err :
        IF err # "" THEN Failed(err)
        ELSE RunFilters(1, Where(httpdVariants(r, rs), kept)))

(***************************************************************************)
(* Choosers.  Besides the two choosers of the library a negotiator can be  *)
(* given any representation.Chooser: the custom chooser of the model       *)
(* returns what it was built to return (an error, nil, or the candidate at *)
(* an index).                                                              *)
(***************************************************************************)
customChoose(c, rs) ==
    IF c.ret < 0 THEN Failed("chooser")
    ELSE IF c.ret > Len(rs) THEN Chosen(0)
    ELSE Chosen(c.ret)

(***************************************************************************)
(* The response writer: the status written (0 while none is), the headers  *)
(* added, and the length of the body written (-1 while none is).           *)
(***************************************************************************)
NoResponse == [status |-> 0, header |-> <<>>, body |-> 0 - 1]

StatusOK == 200

StatusCreated == 201

StatusNoContent == 204

StatusMultipleChoices == 300

StatusNotAcceptable == 406

\* The first error among the serialisations of the candidates, "" if none.
RECURSIVE BytesErr(_)
BytesErr(rs) ==
    IF rs = <<>> THEN ""
    ELSE IF Bytes(Head(rs)).err # "" THEN Bytes(Head(rs)).err
    ELSE BytesErr(Tail(rs))

\* header.NewAlternates: serialises every candidate; fb is the index of the
\* fallback candidate (0 for nil).
NewAlternates(fb, rs) ==
    IF BytesErr(rs) # "" THEN [err |-> BytesErr(rs), v |-> <<>>]
    ELSE [err |-> "",
          v |-> [fallback |-> fb,
                 descriptions |-> [i \in DOMAIN rs |-> rs[i].contentLocation]]]

(***************************************************************************)
(* The transparent negotiator.  A call returns the error (or panic) and    *)
(* the response written, with a trace of the way it took.                  *)
(***************************************************************************)
DefaultMaximumVariantListSize == 10

DefaultGuessSmallThreshold == 50

\* transparent.New that keeps a maximum variant list size below 1 as given.
TransparentNewUnclamped(sizeOpt, thresholdOpt, chooser, list) ==
    [maximumVariantListSize |->
        IF sizeOpt = <<>> THEN 10 ELSE sizeOpt[1],
     guessSmallThreshold |->
        IF thresholdOpt = <<>> THEN 50 ELSE thresholdOpt[1],
     chooser |-> chooser,
     listRepresentationConstructor |-> list,
     options |-> [size |-> sizeOpt, threshold |-> thresholdOpt]]

\* transparent.New with the options MaximumVariantListSize and
\* GuessSmallThreshold (each given at most once: sizeOpt and thresholdOpt are
\* empty or hold the value given), Chooser and ListRepresentationConstructor.
\* The record keeps the options given beside the fields of the negotiator.
TransparentNew(sizeOpt, thresholdOpt, chooser, list) ==
    [maximumVariantListSize |->
        IF sizeOpt = <<>> THEN DefaultMaximumVariantListSize
        ELSE IF sizeOpt[1] < 1 THEN 1 ELSE sizeOpt[1],
     guessSmallThreshold |->
        IF thresholdOpt = <<>> THEN DefaultGuessSmallThreshold ELSE thresholdOpt[1],
     chooser |-> chooser,
     listRepresentationConstructor |-> list,
     options |-> [size |-> sizeOpt, threshold |-> thresholdOpt]]

\* The serialised form of the list representation the constructor builds.
ListBytes(n, rs) ==
    IF n.listRepresentationConstructor.fails
    THEN [err |-> "list", len |-> 0]
    ELSE [err |-> "", len |-> n.listRepresentationConstructor.size]

Outcome(err, panic, resp, tr) == [err |-> err, panic |-> panic, response |-> resp, trace |-> tr]

NoTrace ==
    [kind |-> "", chooserCalls |-> 0, chose |-> 0, sizeChecked |-> FALSE,
     proceeded |-> FALSE]

\* Negotiator.listResponse
listResponse(n, rs, tr) ==
    LET t == [tr EXCEPT !.kind = "list"] IN
    IF Len(rs) = 0 THEN Outcome("", TRUE, NoResponse, t)
    ELSE
    LET a == NewAlternates(1, rs)
        b == ListBytes(n, rs)
    IN  IF a.err # "" THEN Outcome(a.err, FALSE, NoResponse, t)
        ELSE IF b.err # "" THEN Outcome(b.err, FALSE, NoResponse, t)
        ELSE Outcome("", FALSE,
                 [status |-> StatusMultipleChoices,
                  header |-> << <<"Alternates", a.v>>, <<"TCN", "list">>,
                                <<"Content-Length", b.len>>, <<"Content-Type", "list">>,
                                <<"Content-Encoding", "list">>, <<"Content-Language", "list">>,
                                <<"Content-Charset", "list">> >>,
                  body |-> b.len], t)

\* Negotiator.choiceResponse
choiceResponse(n, rs, i, tr) ==
    LET t   == [tr EXCEPT !.kind = "choice"]
        a   == NewAlternates(0, rs)
        rep == rs[i]
        b   == Bytes(rep)
    IN  IF a.err # "" THEN Outcome(a.err, FALSE, NoResponse, t)
        ELSE IF b.err # "" THEN Outcome(b.err, FALSE, NoResponse, t)
        ELSE Outcome("", FALSE,
                 [status |-> StatusOK,
                  header |-> << <<"Alternates", a.v>>, <<"TCN", "choice">>,
                                <<"Content-Location", rep.contentLocation>>,
                                <<"Content-Length", b.len>>,
                                <<"Content-Type", rep.contentType>>,
                                <<"Content-Encoding", rep.contentEncoding>>,
                                <<"Content-Language", rep.contentLanguage>>,
                                <<"Content-Charset", rep.contentCharset>> >>,
                  body |-> b.len], t)

Choose(chooser, r, rs) ==
    CASE chooser.kind = "rvsa1" -> rvsaChoose(r, rs)
      [] chooser.kind = "httpd" -> httpdChoose(r, rs)
      [] OTHER                  -> customChoose(chooser, rs)

\* The neighbor test of Negotiator.Negotiate.
IsNeighbor(loc, url) ==
    LET neighborURL == TrimRight(loc, "/")
        resourceURL == TrimRight(url, "/")
        nLastSlash  == LastIndex(neighborURL, "/")
        rLastSlash  == LastIndex(resourceURL, "/")
    IN  ~(nLastSlash = 0 - 1 \/ rLastSlash = 0 - 1 \/ nLastSlash # rLastSlash)

\* The size test that gives up the choice only when it is the smaller one.
TooLargeWhenSmaller(n, choiceLen, listLen) ==
    choiceLen < listLen /\ Abs(listLen - choiceLen) > n.guessSmallThreshold

\* The size test that gives up the choice already at the threshold.
TooLargeAtThreshold(n, choiceLen, listLen) ==
    ~(choiceLen < listLen) /\ Abs(listLen - choiceLen) >= n.guessSmallThreshold

\* The size test of Negotiator.Negotiate under guess-small: the choice response
\* is given up when it is not smaller and differs by more than the threshold.
TooLarge(n, choiceLen, listLen) ==
    LET less == choiceLen < listLen
        diff == Abs(listLen - choiceLen)
    IN  ~less /\ diff > n.guessSmallThreshold

ErrVariantListSizeExceeded == "ErrVariantListSizeExceeded"

\* Negotiator.Negotiate (transparent)
TransparentNegotiate(n, r, rs) ==
    IF Len(rs) > n.maximumVariantListSize
    THEN Outcome(ErrVariantListSizeExceeded, FALSE, NoResponse, NoTrace)
    ELSE
    With(NewNegotiate(HeaderValues(r, "Negotiate")), LAMBDA negotiate :
    IF negotiate.err # "" THEN Outcome(negotiate.err, FALSE, NoResponse, NoTrace)
    ELSE
    LET shouldChoose ==
            \/ Contains(negotiate.h, "*")
            \/ ContainsRVSA(negotiate.h, "1.0")
            \/ Contains(negotiate.h, NegotiateDirectiveGuessSmall)
    IN
    IF ~shouldChoose THEN listResponse(n, rs, NoTrace)
    ELSE
    With(Choose(n.chooser, r, rs), LAMBDA c :
    LET t1 == [NoTrace EXCEPT !.chooserCalls = 1, !.chose = c.idx] IN
    IF c.panic THEN Outcome("", TRUE, NoResponse, t1)
    ELSE IF c.err # "" THEN Outcome(c.err, FALSE, NoResponse, t1)
    ELSE IF c.idx = 0 THEN listResponse(n, rs, t1)
    ELSE
    LET guess       == Contains(negotiate.h, NegotiateDirectiveGuessSmall)
        listBytes   == ListBytes(n, rs)
        choiceBytes == Bytes(rs[c.idx])
        t2          == [t1 EXCEPT !.sizeChecked = TRUE]
        t3          == [t1 EXCEPT !.sizeChecked = guess, !.proceeded = TRUE]
    IN
    IF guess /\ listBytes.err # "" THEN Outcome(listBytes.err, FALSE, NoResponse, t1)
    ELSE IF guess /\ choiceBytes.err # "" THEN Outcome(choiceBytes.err, FALSE, NoResponse, t1)
    ELSE IF guess /\ TooLarge(n, choiceBytes.len, listBytes.len) THEN listResponse(n, rs, t2)
    ELSE IF ~IsNeighbor(rs[c.idx].contentLocation, r.URL) THEN listResponse(n, rs, t3)
    ELSE choiceResponse(n, rs, c.idx, t3)))

(***************************************************************************)
(* The proactive negotiator.                                               *)
(***************************************************************************)
ApplicationJSON == MediaText("application", "json", NoParams)

ApplicationXML == MediaText("application", "xml", NoParams)

ApplicationYAML == MediaText("application", "yaml", NoParams)

\* List.Bytes: the serialised list holds a description of every candidate.
\* Its length is taken to be the number of candidates.
ListLength(rs) == Len(rs)

\* jsonList, xmlList and yamlList: the list representation of a media type.
ListOf(ct, rs) ==
    Rep(ct, "en-US", "ascii", <<"identity">>, <<>>, <<>>, Dec(0, 0), ListLength(rs))

jsonList(rs) == ListOf(ApplicationJSON, rs)

xmlList(rs) == ListOf(ApplicationXML, rs)

yamlList(rs) == ListOf(ApplicationYAML, rs)

\* proactive.New with the options DisableStrictAccept,
\* DisableStrictAcceptLanguage, DisableStrictAcceptCharset (DisableStrictMode
\* is the three of them), DisableNotAcceptableRepresentation and Algorithm.
ProactiveNew(disableAccept, disableLanguage, disableCharset, disableBody, chooser) ==
    [strictAccept |-> ~disableAccept,
     strictAcceptLanguage |-> ~disableLanguage,
     strictAcceptCharset |-> ~disableCharset,
     notAcceptableRepresentation |-> ~disableBody,
     chooser |-> chooser]

ProactiveTrace ==
    [branch |-> "", strictFailed |-> "", chooserCalls |-> 0, listChooserCalls |-> 0,
     chose |-> 0, usedDefault |-> FALSE]

\* The answer that writes its status before it serialises the representation.
acceptableStatusFirst(r, rep, tr) ==
    LET t == [tr EXCEPT !.branch = "acceptable"]
        b == Bytes(rep)
        status == IF r.IsCreation THEN StatusCreated ELSE StatusOK
    IN  IF b.err # "" THEN Outcome(b.err, FALSE, [NoResponse EXCEPT !.status = status], t)
        ELSE Outcome("", FALSE,
                 [status |-> status,
                  header |-> << <<"Content-Location", rep.contentLocation>>,
                                <<"Content-Length", b.len>>,
                                <<"Content-Type", rep.contentType>>,
                                <<"Content-Encoding", rep.contentEncoding>>,
                                <<"Content-Language", rep.contentLanguage>>,
                                <<"Content-Charset", rep.contentCharset>> >>,
                  body |-> b.len], t)

\* Negotiator.acceptable
acceptable(r, rep, tr) ==
    LET t == [tr EXCEPT !.branch = "acceptable"]
        b == Bytes(rep)
    IN  IF b.err # "" THEN Outcome(b.err, FALSE, NoResponse, t)
        ELSE Outcome("", FALSE,
                 [status |-> IF r.IsCreation THEN StatusCreated ELSE StatusOK,
                  header |-> << <<"Content-Location", rep.contentLocation>>,
                                <<"Content-Length", b.len>>,
                                <<"Content-Type", rep.contentType>>,
                                <<"Content-Encoding", rep.contentEncoding>>,
                                <<"Content-Language", rep.contentLanguage>>,
                                <<"Content-Charset", rep.contentCharset>> >>,
                  body |-> b.len], t)

\* The end of Negotiator.notAcceptable: serialises the list representation
\* chosen and answers with it.
notAcceptableResponse(chosen, t) ==
    With(Bytes(chosen), LAMBDA b :
        IF b.err # "" THEN Outcome(b.err, FALSE, NoResponse, t)
        ELSE Outcome("", FALSE,
                 [status |-> StatusNotAcceptable,
                  header |-> << <<"Content-Length", b.len>>,
                                <<"Content-Type", chosen.contentType>>,
                                <<"Content-Encoding", chosen.contentEncoding>>,
                                <<"Content-Language", chosen.contentLanguage>>,
                                <<"Content-Charset", chosen.contentCharset>> >>,
                  body |-> b.len], t))

\* The not-acceptable branch that answers with the default list
\* representation when the chooser fails on the list representations.
notAcceptableDefaultOnError(n, r, rs, tr) ==
    LET t0 == [tr EXCEPT !.branch = "notAcceptable"] IN
    IF ~n.notAcceptableRepresentation
    THEN Outcome("", FALSE, [NoResponse EXCEPT !.status = StatusNotAcceptable], t0)
    ELSE
    LET lists == <<jsonList(rs), xmlList(rs), yamlList(rs)>>
        t     == [t0 EXCEPT !.listChooserCalls = 1]
    IN
    With(Choose(n.chooser, r, lists), LAMBDA c :
    IF c.panic THEN Outcome("", TRUE, NoResponse, t)
    ELSE IF c.err # "" \/ c.idx = 0
    THEN notAcceptableResponse(jsonList(rs), [t EXCEPT !.usedDefault = TRUE])
    ELSE notAcceptableResponse(lists[c.idx], t))

\* Negotiator.notAcceptable: the list representations are those of the
\* default constructors (JSON, XML, YAML), the default one is the JSON list.
notAcceptable(n, r, rs, tr) ==
    LET t0 == [tr EXCEPT !.branch = "notAcceptable"] IN
    IF ~n.notAcceptableRepresentation
    THEN Outcome("", FALSE, [NoResponse EXCEPT !.status = StatusNotAcceptable], t0)
    ELSE
    LET lists == <<jsonList(rs), xmlList(rs), yamlList(rs)>>
        t     == [t0 EXCEPT !.listChooserCalls = 1]
    IN
    With(Choose(n.chooser, r, lists), LAMBDA c :
    IF c.panic THEN Outcome("", TRUE, NoResponse, t)
    ELSE IF c.err # "" THEN Outcome(c.err, FALSE, NoResponse, t)
    ELSE IF c.idx = 0
    THEN notAcceptableResponse(jsonList(rs), [t EXCEPT !.usedDefault = TRUE])
    ELSE notAcceptableResponse(lists[c.idx], t))

\* The headers Negotiate judges the candidates with: the default of a header
\* the request does not have.
ProactiveAccept(r) ==
    IF "Accept" \in DOMAIN r.Header
    THEN NewAccept(r.Header["Accept"]) ELSE [err |-> "", h |-> DefaultAccept]

ProactiveAcceptLanguage(r) ==
    IF "Accept-Language" \in DOMAIN r.Header
    THEN NewAcceptLanguage(r.Header["Accept-Language"])
    ELSE [err |-> "", h |-> DefaultAcceptLanguage]

ProactiveAcceptCharset(r) ==
    IF "Accept-Charset" \in DOMAIN r.Header
    THEN NewAcceptCharset(r.Header["Accept-Charset"])
    ELSE [err |-> "", h |-> DefaultAcceptCharset]

\* The strict checks that fail as soon as one candidate is incompatible.
StrictFailureOnAny(n, total, ac, alc, acc) ==
    IF ac > 0 /\ n.strictAccept THEN "Accept"
    ELSE IF alc > 0 /\ n.strictAcceptLanguage THEN "Accept-Language"
    ELSE IF acc > 0 /\ n.strictAcceptCharset THEN "Accept-Charset"
    ELSE ""

\* The strict checks of Negotiator.Negotiate: the first strict header none of
\* the candidates is compatible with ("" when there is none), given the total
\* of candidates and the counts of those incompatible with Accept,
\* Accept-Language and Accept-Charset.
StrictFailure(n, total, ac, alc, acc) ==
    IF total = ac /\ n.strictAccept THEN "Accept"
    ELSE IF total = alc /\ n.strictAcceptLanguage THEN "Accept-Language"
    ELSE IF total = acc /\ n.strictAcceptCharset THEN "Accept-Charset"
    ELSE ""

\* The loop of Negotiator.Negotiate over the candidates: the counts of those
\* not compatible with Accept, Accept-Language and Accept-Charset, or the
\* error of a content type that does not parse.
ProactiveCounts(accept, acceptLanguage, acceptCharset, rs) ==
    LET typeOf(i) == AcceptCompatible(accept, rs[i].contentType) IN
    [err |-> IF \E i \in DOMAIN rs : typeOf(i).err # "" THEN "mime" ELSE "",
     ac  |-> Cardinality({i \in DOMAIN rs : ~typeOf(i).c}),
     alc |-> Cardinality({i \in DOMAIN rs :
                 ~AcceptLanguageCompatible(acceptLanguage, rs[i].contentLanguage)}),
     acc |-> Cardinality({i \in DOMAIN rs :
                 ~AcceptCharsetCompatible(acceptCharset, rs[i].contentCharset)})]

\* The end of Negotiator.Negotiate: the strict checks on the counts, then the
\* chooser and the response.
ProactiveDecide(n, r, rs, counts) ==
    LET failed(name) == [ProactiveTrace EXCEPT !.strictFailed = name] IN
    With(StrictFailure(n, Len(rs), counts.ac, counts.alc, counts.acc), LAMBDA strict :
    IF strict # "" THEN notAcceptable(n, r, rs, failed(strict))
    ELSE
    With(Choose(n.chooser, r, rs), LAMBDA c :
    LET t == [ProactiveTrace EXCEPT !.chooserCalls = 1, !.chose = c.idx] IN
    IF c.panic THEN Outcome("", TRUE, NoResponse, t)
    ELSE IF c.err # "" THEN Outcome(c.err, FALSE, NoResponse, t)
    ELSE IF c.idx = 0 THEN notAcceptable(n, r, rs, t)
    ELSE acceptable(r, rs[c.idx], t)))

\* The answer of Negotiator.Negotiate to an empty candidate list.
noContent ==
    Outcome("", FALSE, [NoResponse EXCEPT !.status = StatusNoContent],
            [ProactiveTrace EXCEPT !.branch = "noContent"])

\* Negotiator.Negotiate (proactive)
ProactiveNegotiate(n, r, rs) ==
    IF Len(rs) = 0 THEN noContent
    ELSE
    With(ProactiveAccept(r), LAMBDA accept :
    With(ProactiveAcceptLanguage(r), LAMBDA acceptLanguage :
    With(ProactiveAcceptCharset(r), LAMBDA acceptCharset :
    IF accept.err # "" THEN Outcome(accept.err, FALSE, NoResponse, ProactiveTrace)
    ELSE IF acceptLanguage.err # ""
    THEN Outcome(acceptLanguage.err, FALSE, NoResponse, ProactiveTrace)
    ELSE IF acceptCharset.err # ""
    THEN Outcome(acceptCharset.err, FALSE, NoResponse, ProactiveTrace)
    ELSE
    With(ProactiveCounts(accept.h, acceptLanguage.h, acceptCharset.h, rs), LAMBDA counts :
    IF counts.err # "" THEN Outcome(counts.err, FALSE, NoResponse, ProactiveTrace)
    ELSE ProactiveDecide(n, r, rs, counts)))))

(***************************************************************************)
(* Inputs of the model.                                                    *)
(***************************************************************************)
TextHTML == MediaText("text", "html", NoParams)

ImagePNG == MediaText("image", "png", NoParams)

URLax == <<"/", "a", "/", "x">>

URLx == <<"x">>

URLay == <<"/", "a", "/", "y">>

URLbySlash == <<"/", "b", "/", "y", "/">>

URLaby == <<"/", "a", "/", "b", "/", "y">>

\* The candidates of the transparent negotiator: they differ in location,
\* in size, and one has a content type without marshaller.
TransparentReps ==
    {Rep(TextHTML, "", "", <<>>, URLay, <<>>, Dec(1, 0), 1),
     Rep(TextHTML, "", "", <<>>, URLbySlash, <<>>, Dec(1, 0), 3),
     Rep(TextHTML, "", "", <<"gzip">>, URLay, <<>>, Dec(5, 1), 60),
     Rep(TextHTML, "", "", <<>>, URLaby, <<>>, Dec(1, 0), 3),
     Rep(ImagePNG, "", "", <<>>, URLay, <<>>, Dec(1, 0), 3)}

TransparentURLs == {URLax, URLx}

NegotiateHeaders ==
    {<<>>, <<"trans", "GUESS-SMALL">>, <<"*">>, <<"1.0">>, <<"2.0">>, <<"">>}

\* A list representation of two bytes, and one whose serialisation fails.
ListOfTwoBytes == [size |-> 2, fails |-> FALSE]

ListThatFails == [size |-> 0, fails |-> TRUE]

\* The options MaximumVariantListSize and GuessSmallThreshold as given to New:
\* none, a size below 1, a size of 1 with a threshold of 1, a threshold of 1.
TransparentOptions ==
    {[size |-> <<>>, threshold |-> <<>>], [size |-> <<0>>, threshold |-> <<>>],
     [size |-> <<1>>, threshold |-> <<1>>], [size |-> <<>>, threshold |-> <<1>>]}

CustomChoosers == [kind : {"custom"}, ret : (0 - 1)..MaxReps]

RVSA1 == [kind |-> "rvsa1"]

\* The headers of a request: the Negotiate header when it has values, the
\* Accept header when given.
Headers(neg, acc) ==
    [name \in (IF neg = <<>> THEN {} ELSE {"Negotiate"}) \cup
              (IF acc = <<>> THEN {} ELSE {"Accept"}) |->
        IF name = "Negotiate" THEN neg ELSE acc]

TransparentNegotiators ==
    {TransparentNew(o.size, o.threshold, chooser, ListOfTwoBytes) :
        o \in TransparentOptions, chooser \in CustomChoosers \cup {RVSA1}}
    \cup
    {TransparentNew(<<>>, <<1>>, chooser, ListThatFails) :
        chooser \in CustomChoosers \cup {RVSA1}}

(***************************************************************************)
(* The transparent negotiator as a state machine: one call of Negotiate.   *)
(***************************************************************************)
Init ==
    /\ pc = "ready"
    /\ negotiator \in TransparentNegotiators
    /\ \E neg \in NegotiateHeaders, url \in TransparentURLs,
          acc \in {<<>>, <<TextHTML>>} :
          /\ acc # <<>> => negotiator.chooser.kind = "rvsa1"
          /\ request = [URL |-> url, Header |-> Headers(neg, acc)]
    /\ reps \in SeqsUpTo(TransparentReps, MaxReps)
    /\ response = NoResponse
    /\ result = [err |-> "", panic |-> FALSE]
    /\ trace = NoTrace
    /\ defaults = PackageDefaults

Negotiate ==
    /\ pc = "ready"
    /\ \E o \in {TransparentNegotiate(negotiator, request, reps)} :
          /\ response' = o.response
          /\ result' = [err |-> o.err, panic |-> o.panic]
          /\ trace' = o.trace
    /\ pc' = "done"
    /\ UNCHANGED <<negotiator, request, reps, defaults>>

Next == Negotiate

Spec == Init /\ [][Next]_vars

(***************************************************************************)
(* Properties of the transparent negotiator.                               *)
(***************************************************************************)
\* The value of the first header of the response with the name.
HeaderOf(resp, name) ==
    resp.header[CHOOSE i \in DOMAIN resp.header : resp.header[i][1] = name][2]

HasHeader(resp, name) == \E i \in DOMAIN resp.header : resp.header[i][1] = name

IsChoiceResponse(resp) ==
    resp.status = StatusOK /\ HasHeader(resp, "TCN") /\ HeaderOf(resp, "TCN") = "choice"

IsListResponse(resp) ==
    /\ resp.status = StatusMultipleChoices
    /\ HasHeader(resp, "TCN") /\ HeaderOf(resp, "TCN") = "list"

\* The part of a URL up to and with its last slash.
ParentPath(u) ==
    LET t == TrimRight(u, "/") IN SubSeq(t, 1, LastIndex(t, "/") + 1)

\* A location is a path-neighbor of a URL when both have a parent path and
\* it is the same.
PathNeighbor(loc, url) ==
    /\ ParentPath(loc) # <<>>
    /\ ParentPath(loc) = ParentPath(url)

\* The request asks for guess-small, and the negotiator's chooser chose a
\* candidate whose serialised form and the list's are at hand.
GuessSmallChosen ==
    /\ pc = "done"
    /\ Len(reps) <= negotiator.maximumVariantListSize
    /\ NewNegotiate(HeaderValues(request, "Negotiate")).err = ""
    /\ Contains(HeaderValues(request, "Negotiate"), "guess-small")
    /\ ~result.panic
    /\ trace.chose > 0
    /\ Bytes(reps[trace.chose]).err = ""
    /\ ListBytes(negotiator, reps).err = ""

ChoiceLen == Bytes(reps[trace.chose]).len

ListLen == ListBytes(negotiator, reps).len

\* C1: the transparent negotiator emits a choice response (status 200, TCN:
\* choice) only for a variant whose content-location shares the parent path of
\* the request URL; for a chosen variant that is no path-neighbor it does not
\* emit a choice response but a list response.
C1_ChoiceOnlyForPathNeighbor ==
    /\ (pc = "done" /\ IsChoiceResponse(response))
          => PathNeighbor(HeaderOf(response, "Content-Location"), request.URL)
    /\ (pc = "done" /\ trace.chose > 0 /\ result.err = "" /\ ~result.panic
           /\ ~PathNeighbor(reps[trace.chose].contentLocation, request.URL))
          => IsListResponse(response)

\* C8: with guess-small in the Negotiate header, a chosen representation whose
\* serialised body is more than the guess-small threshold larger than the
\* serialised list representation is never served as a choice: the negotiator
\* takes the list response, which is status 300 with TCN: list when all
\* candidates serialise.
C8_TooLargeChoiceFallsBackToList ==
    (GuessSmallChosen /\ ChoiceLen - ListLen > negotiator.guessSmallThreshold)
        => /\ ~IsChoiceResponse(response)
           /\ trace.kind = "list"
           /\ BytesErr(reps) = "" => IsListResponse(response)

C8_Witness ==
    /\ GuessSmallChosen
    /\ ChoiceLen - ListLen > negotiator.guessSmallThreshold
    /\ IsListResponse(response)

\* C9 as stated: with guess-small and a representation chosen, the negotiator
\* proceeds with the choice response if and only if |C| < |L| or
\* (|L| - |C|) <= threshold, and otherwise emits a list response.
C9_ProceedsIffAsStated ==
    GuessSmallChosen
        => /\ trace.proceeded <=>
                (ChoiceLen < ListLen \/ ListLen - ChoiceLen <= negotiator.guessSmallThreshold)
           /\ ~trace.proceeded => trace.kind = "list"

\* C9 amended: with guess-small and a representation chosen, the negotiator
\* proceeds with the choice response (goes on to the neighbor test) if and only
\* if |C| < |L| or the absolute difference of |L| and |C| is at most the
\* threshold, and otherwise takes the list response.
C9_ProceedsIffWithinThreshold ==
    GuessSmallChosen
        => /\ trace.proceeded <=>
                (ChoiceLen < ListLen \/ Abs(ListLen - ChoiceLen) <= negotiator.guessSmallThreshold)
           /\ ~trace.proceeded => (trace.kind = "list" /\ ~IsChoiceResponse(response))

C9_Witness ==
    /\ GuessSmallChosen
    /\ ChoiceLen > ListLen
    /\ trace.proceeded
    /\ IsChoiceResponse(response)

\* The maximum variant list size the options configure: 10 when the option is
\* not given, and a value below 1 counts as 1.
ConfiguredMaximum ==
    IF negotiator.options.size = <<>> THEN 10
    ELSE IF negotiator.options.size[1] < 1 THEN 1
    ELSE negotiator.options.size[1]

\* C10: Negotiate called with more candidates than the configured maximum
\* variant list size (a configured value below 1 counting as 1) returns
\* ErrVariantListSizeExceeded and writes no status, header or body; with at
\* most that many candidates it never returns that error.
C10_VariantListSizeExceeded ==
    pc = "done"
        => /\ Len(reps) > ConfiguredMaximum
                => (result.err = ErrVariantListSizeExceeded /\ response = NoResponse)
           /\ Len(reps) <= ConfiguredMaximum
                => result.err # ErrVariantListSizeExceeded

C10_Witness ==
    /\ pc = "done"
    /\ negotiator.options.size = <<0>>
    /\ Len(reps) = 2
    /\ result.err = ErrVariantListSizeExceeded
    /\ response = NoResponse

\* The call got as far as reading the Negotiate header: the candidates are
\* within the maximum variant list size and the header parses.
NegotiateRead ==
    /\ pc = "done"
    /\ Len(reps) <= negotiator.maximumVariantListSize
    /\ \A i \in DOMAIN HeaderValues(request, "Negotiate") :
          HeaderValues(request, "Negotiate")[i] # ""

\* The Negotiate header holds "*", the RVSA version "1.0" or guess-small
\* (directives are tokens, compared without regard to case).
AsksForChoice ==
    Range(HeaderValues(request, "Negotiate"))
        \cap {"*", "1.0", "guess-small", "GUESS-SMALL"} # {}

\* C11: the transparent negotiator invokes the chooser if and only if the
\* Negotiate header contains "*", the RVSA version "1.0" or guess-small; for
\* every other Negotiate header (an unrecognised RVSA version among them, and
\* whatever the other request headers are) it takes the list response, which
\* when the call returns is status 300 with TCN: list and describes all
\* candidates.
C11_ChooserIffAskedFor ==
    NegotiateRead
        => /\ trace.chooserCalls = 1 <=> AsksForChoice
           /\ ~AsksForChoice
                => /\ trace.kind = "list"
                   /\ (result.err = "" /\ ~result.panic)
                        => /\ IsListResponse(response)
                           /\ HeaderOf(response, "Alternates").descriptions
                                 = [i \in DOMAIN reps |-> reps[i].contentLocation]

C11_Witness ==
    /\ NegotiateRead
    /\ HeaderValues(request, "Negotiate") = <<"2.0">>
    /\ "Accept" \in DOMAIN request.Header
    /\ Len(reps) = 2
    /\ trace.chooserCalls = 0
    /\ IsListResponse(response)

(***************************************************************************)
(* The RVSA/1.0 chooser as a state machine: one call of Choose.            *)
(***************************************************************************)
TextAnyHalf == MediaText("text", "*", [k \in {"q"} |-> "0.5"])

TextHTMLZero == MediaText("text", "html", [k \in {"q"} |-> "0"])

AcceptHeaders == {<<>>, <<TextHTML>>, <<TextAnyHalf, TextHTMLZero>>, <<BadText>>}

LanguageText(tag, q) == [tag |-> tag, q |-> q]

AcceptLanguageHeaders ==
    {<<>>, <<LanguageText("en", "")>>,
     <<LanguageText("fr", "0.5"), LanguageText("en-US", "")>>}

RangeText(name, q) == [name |-> name, q |-> q]

AcceptCharsetHeaders ==
    {<<>>, <<RangeText("UTF8", "")>>, <<RangeText("*", "0.5"), RangeText("ascii", "0")>>}

FeatureExpression(type, tag) == [type |-> type, tag |-> tag, value |-> ""]

AcceptFeaturesHeaders == {<<>>, <<FeatureExpression("EXISTS", "tables")>>}

FeatureElement(kind, tag, t, f) ==
    [kind |-> kind, tag |-> tag, v |-> "", l |-> "", h |-> "", bag |-> <<>>, t |-> t, f |-> f]

\* The headers of a request from the values of each: a header without values
\* is absent.
RequestHeaders(values) ==
    [name \in {n \in DOMAIN values : values[n] # <<>>} |-> values[name]]

RVSAReps ==
    {Rep(TextHTML, "", "", <<>>, URLay, <<>>, Dec(1, 0), 1),
     Rep(TextHTML, "en", "utf8", <<>>, URLay, <<>>, Dec(9, 1), 1),
     Rep(TextHTML, "fr", "", <<>>, URLay, <<>>, Dec(1, 0), 1),
     Rep(EmptyText, "", "ascii", <<>>, URLay,
         <<FeatureElement("exists", "tables", "", "")>>, Dec(5, 1), 1),
     Rep(TextHTML, "", "", <<>>, URLay,
         <<FeatureElement("exists", "frames", "", "0.5")>>, Dec(1, 0), 1),
     Rep(TextHTML, "", "", <<>>, URLay,
         <<FeatureElement("invalid", "", "", "")>>, Dec(1, 0), 1),
     Rep(TextHTML, "", "", <<>>, URLay,
         <<FeatureElement("exists", "tables", "1.5", "")>>, Dec(1, 0), 1),
     Rep(BadText, "", "", <<>>, URLay, <<>>, Dec(1, 0), 1)}

NoResult == [err |-> "", idx |-> 0, panic |-> FALSE]

InitRVSA ==
    /\ pc = "ready"
    /\ negotiator = RVSA1
    /\ \E a \in AcceptHeaders, al \in AcceptLanguageHeaders,
          ac \in AcceptCharsetHeaders, af \in AcceptFeaturesHeaders :
          request = [URL |-> URLax,
                     Header |-> RequestHeaders(
                        [n \in {"Accept", "Accept-Language", "Accept-Charset",
                                "Accept-Features"} |->
                            CASE n = "Accept" -> a
                              [] n = "Accept-Language" -> al
                              [] n = "Accept-Charset" -> ac
                              [] OTHER -> af])]
    /\ reps \in SeqsUpTo(RVSAReps, MaxReps)
    /\ response = NoResponse
    /\ result = NoResult
    /\ trace = NoTrace
    /\ defaults = PackageDefaults

ChooseRVSA ==
    /\ pc = "ready"
    /\ result' = rvsaChoose(request, reps)
    /\ pc' = "done"
    /\ UNCHANGED <<negotiator, request, reps, response, trace, defaults>>

NextRVSA == ChooseRVSA

SpecRVSA == InitRVSA /\ [][NextRVSA]_vars

(***************************************************************************)
(* Properties of the RVSA/1.0 chooser.                                     *)
(***************************************************************************)
\* The ranked candidates of the call.
Ranked == rvsaVariants(request, reps)

Q(i) == rvsaOverallQuality(Ranked[i])

Positive(q) == DecLess(Dec(0, 0), q)

\* No other candidate has a higher overall quality.
HighestQ(i) == \A j \in DOMAIN reps : ~DecLess(Q(i), Q(j))

HeaderAbsent(name) == name \notin DOMAIN request.Header

\* C2: the RVSA/1.0 chooser never returns a representation whose overall
\* quality Q is 0 or whose is_definite flag is false; an absent Accept* header
\* counts as a wildcard, so a returned representation that has a content type,
\* language, charset or features comes with the header of that dimension.
C2_ChosenIsPositiveAndDefinite ==
    (pc = "done" /\ result.idx > 0)
        => /\ Positive(Q(result.idx))
           /\ Ranked[result.idx].isDefinite
           /\ reps[result.idx].contentType.kind # "empty" => ~HeaderAbsent("Accept")
           /\ reps[result.idx].contentLanguage # "" => ~HeaderAbsent("Accept-Language")
           /\ reps[result.idx].contentCharset # "" => ~HeaderAbsent("Accept-Charset")
           /\ reps[result.idx].contentFeatures # <<>> => ~HeaderAbsent("Accept-Features")

C2_Witness ==
    /\ pc = "done"
    /\ result.idx > 0
    /\ reps[result.idx].contentLanguage # ""
    /\ \E j \in DOMAIN reps : ~Ranked[j].isDefinite

\* C3 as stated: the chooser returns the first candidate of the Q-descending
\* order whose Q > 0.0 and whose is_definite flag is true, and "no choice" only
\* when no candidate has both.
C3_FirstQualifyingAsStated ==
    (pc = "done" /\ result.err = "" /\ ~result.panic)
        => LET qualifies(i) == Positive(Q(i)) /\ Ranked[i].isDefinite IN
           /\ result.idx > 0 => qualifies(result.idx)
           /\ result.idx = 0 => ~\E i \in DOMAIN reps : qualifies(i)

\* C3 amended: the chooser sorts the candidates by Q descending and looks at
\* the first one only: what it returns has the highest Q, a Q > 0.0 and is
\* definite; it returns "no choice" when there is no candidate or a candidate
\* of highest Q has Q = 0 or is not definite, whatever the others are.
C3_HighestOnlyIfQualifying ==
    (pc = "done" /\ result.err = "" /\ ~result.panic)
        => LET qualifies(i) == Positive(Q(i)) /\ Ranked[i].isDefinite IN
           /\ result.idx > 0 => (HighestQ(result.idx) /\ qualifies(result.idx))
           /\ result.idx = 0
                => (reps = <<>> \/ \E i \in DOMAIN reps : HighestQ(i) /\ ~qualifies(i))

C3_Witness ==
    /\ pc = "done" /\ result.err = "" /\ ~result.panic
    /\ result.idx = 0
    /\ \E i, j \in DOMAIN reps :
          /\ HighestQ(i) /\ ~Ranked[i].isDefinite
          /\ Positive(Q(j)) /\ Ranked[j].isDefinite
          /\ Positive(Q(j)) /\ Ranked[j].isDefinite

\* A header of the request does not parse.
HeaderParseError ==
    \/ NewAccept(HeaderValues(request, "Accept")).err # ""
    \/ NewAcceptLanguage(HeaderValues(request, "Accept-Language")).err # ""
    \/ NewAcceptCharset(HeaderValues(request, "Accept-Charset")).err # ""
    \/ NewAcceptFeatures(HeaderValues(request, "Accept-Features")).err # ""

\* The call parses an attribute of candidate i that does not parse: its
\* content type or language tag while it is matched against the ranges of the
\* header, or its feature list while it is evaluated against Accept-Features.
CandidateParseError(i) ==
    \/ /\ ~HeaderAbsent("Accept")
       /\ reps[i].contentType.kind = "bad"
    \/ /\ ~HeaderAbsent("Accept-Language")
       /\ reps[i].contentLanguage # "" /\ ~LanguageParses(reps[i].contentLanguage)
    \/ /\ ~HeaderAbsent("Accept-Features")
       /\ \E k \in DOMAIN reps[i].contentFeatures :
             reps[i].contentFeatures[k].kind = "invalid"

\* C12: every parse error met during a negotiation, in a request header or in
\* an attribute of a candidate, halts it and is returned as an error to the
\* caller of Choose; it is never swallowed.
C12_ParseErrorsReturned ==
    (pc = "done" /\ (HeaderParseError \/ \E i \in DOMAIN reps : CandidateParseError(i)))
        => (result.err # "" /\ ~result.panic)

\* A quality value of the closed interval from 0 to 1.
InUnitInterval(q) == ~DecLess(q, QualityValueMinimum) /\ ~DecLess(QualityValueMaximum, q)

\* The qualities Choose computed for candidate i all lie in [0, 1].
QualitiesInUnitInterval(i) ==
    With(rvsaVariants(request, reps)[i], LAMBDA v :
        /\ InUnitInterval(v.qt) /\ InUnitInterval(v.qc)
        /\ InUnitInterval(v.ql) /\ InUnitInterval(v.qf)
        /\ InUnitInterval(Multiply(v.qt, v.qc))
        /\ InUnitInterval(Multiply(v.ql, v.qf)))

\* C15: every quality value stays in [0, 1] after any operation: each quality
\* the chooser computes for a candidate (media type, charset, language and
\* feature quality) and each product of two of them lies in [0, 1].
C15_QualitiesStayInUnitInterval ==
    (pc = "done" /\ ~result.panic) => \A i \in DOMAIN reps : QualitiesInUnitInterval(i)

(***************************************************************************)
(* The Apache httpd chooser as a state machine: one call of Choose.        *)
(***************************************************************************)
HTTPD == [kind |-> "httpd"]

TextHTMLTiny == MediaText("text", "html", [k \in {"q"} |-> "0.0004"])

TextHTMLLevel(l) == MediaText("text", "html", [k \in {"level"} |-> l])

HttpdAcceptHeaders == {<<>>, <<TextHTML>>, <<TextHTMLTiny>>, <<TextAnyHalf, TextHTMLZero>>}

AcceptEncodingHeaders ==
    {<<>>, <<RangeText("gzip", "")>>, <<RangeText("gzip", "1.0"), RangeText("identity", "0.5")>>}

HttpdReps ==
    {Rep(TextHTML, "", "", <<>>, URLay, <<>>, Dec(1, 0), 1),
     Rep(TextHTMLLevel("2"), "en", "utf8", <<"gzip">>, URLay, <<>>, Dec(9, 1), 3),
     Rep(TextHTMLLevel("1"), "fr", "ascii", <<>>, URLay, <<>>, Dec(1, 0), 1),
     Rep(TextHTMLLevel("2"), "fr", "ascii", <<>>, URLay, <<>>, Dec(1, 0), 3),
     Rep(ApplicationJSON, "en", "iso-8859-1", <<"identity">>, URLay, <<>>, Dec(1, 0), 3),
     Rep(ApplicationJSON, "en", "iso-8859-1", <<"identity">>, URLay, <<>>, Dec(1, 0), 1),
     Rep(EmptyText, "", "utf8", <<>>, URLay, <<>>, Dec(1, 0), 1),
     Rep(TextHTMLLevel("x"), "", "", <<>>, URLay, <<>>, Dec(1, 0), 1),
     Rep(ImagePNG, "en", "", <<>>, URLay, <<>>, Dec(1, 0), 3)}

InitHttpd ==
    /\ pc = "ready"
    /\ negotiator = HTTPD
    /\ \E a \in HttpdAcceptHeaders, ae \in AcceptEncodingHeaders,
          al \in AcceptLanguageHeaders, ac \in AcceptCharsetHeaders :
          request = [URL |-> URLax,
                     Header |-> RequestHeaders(
                        [n \in {"Accept", "Accept-Encoding", "Accept-Language",
                                "Accept-Charset"} |->
                            CASE n = "Accept" -> a
                              [] n = "Accept-Encoding" -> ae
                              [] n = "Accept-Language" -> al
                              [] OTHER -> ac])]
    /\ reps \in SeqsUpTo(HttpdReps, MaxReps)
    /\ response = NoResponse
    /\ result = NoResult
    /\ trace = NoTrace
    /\ defaults = PackageDefaults

ChooseHttpd ==
    /\ pc = "ready"
    /\ result' = httpdChoose(request, reps)
    /\ trace' = [steps |-> httpdSteps(request, reps)]
    /\ pc' = "done"
    /\ UNCHANGED <<negotiator, request, reps, response, defaults>>

NextHttpd == ChooseHttpd

SpecHttpd == InitHttpd /\ [][NextHttpd]_vars

\* C4: the Apache httpd chooser never returns an eliminated candidate: a
\* candidate whose media type, charset, encoding or language quality equals
\* the quality minimum on values rounded to three fractional digits is never
\* the result of Choose.
C4_NeverReturnsEliminated ==
    (pc = "done" /\ result.idx > 0)
        => LET v == httpdVariants(request, reps)[result.idx] IN
           /\ ~QVEquals(v.qt, QualityValueMinimum)
           /\ ~QVEquals(v.qc, QualityValueMinimum)
           /\ ~QVEquals(v.qe, QualityValueMinimum)
           /\ ~QVEquals(v.ql, QualityValueMinimum)

(***************************************************************************)
(* The proactive negotiator as a state machine: one call of Negotiate.     *)
(***************************************************************************)
ProactiveChoosers == [kind : {"custom"}, ret : (0 - 1)..1]

\* The negotiators: the default chooser with every choice of the strict
\* options or without the body of a 406 response, a custom chooser with strict
\* mode as it is or disabled as a whole.
ProactiveNegotiators ==
    {ProactiveNew(disableAccept, disableLanguage, disableCharset, FALSE, HTTPD) :
        disableAccept \in BOOLEAN, disableLanguage \in BOOLEAN,
        disableCharset \in BOOLEAN}
    \cup
    {ProactiveNew(FALSE, FALSE, FALSE, TRUE, HTTPD)}
    \cup
    {ProactiveNew(disableStrictMode, disableStrictMode, disableStrictMode, FALSE,
                  chooser) :
        disableStrictMode \in BOOLEAN, chooser \in ProactiveChoosers}

ProactiveReps ==
    {Rep(TextHTML, "en", "utf8", <<>>, URLax, <<>>, Dec(1, 0), 3),
     Rep(TextHTML, "", "", <<>>, URLax, <<>>, Dec(1, 0), 1),
     Rep(ApplicationJSON, "fr", "ascii", <<>>, URLax, <<>>, Dec(1, 0), 3),
     Rep(EmptyText, "en", "ascii", <<>>, URLax, <<>>, Dec(1, 0), 1),
     Rep(ImagePNG, "en", "utf8", <<>>, URLax, <<>>, Dec(1, 0), 3)}

InitProactive ==
    /\ pc = "ready"
    /\ negotiator \in ProactiveNegotiators
    /\ \E a \in {<<>>, <<ApplicationJSON>>, <<BadText>>},
          al \in {<<>>, <<LanguageText("en", "")>>},
          ac \in {<<>>, <<RangeText("ascii", "")>>},
          created \in BOOLEAN :
          /\ created => (al = <<>> /\ ac = <<>>)
          /\ request = [URL |-> URLax,
                     IsCreation |-> created,
                     Header |-> RequestHeaders(
                        [n \in {"Accept", "Accept-Language", "Accept-Charset"} |->
                            CASE n = "Accept" -> a
                              [] n = "Accept-Language" -> al
                              [] OTHER -> ac])]
    /\ reps \in SeqsUpTo(ProactiveReps, MaxReps)
    /\ response = NoResponse
    /\ result = [err |-> "", panic |-> FALSE]
    /\ trace = ProactiveTrace
    /\ defaults = PackageDefaults

NegotiateProactive ==
    /\ pc = "ready"
    /\ \E o \in {ProactiveNegotiate(negotiator, request, reps)} :
          /\ response' = o.response
          /\ result' = [err |-> o.err, panic |-> o.panic]
          /\ trace' = o.trace
    /\ pc' = "done"
    /\ UNCHANGED <<negotiator, request, reps, defaults>>

NextProactive == NegotiateProactive

SpecProactive == InitProactive /\ [][NextProactive]_vars

(***************************************************************************)
(* Properties of the proactive negotiator.                                 *)
(***************************************************************************)
\* The candidates whose attribute is not compatible with the header of the
\* name, the default standing for a header the request does not have.
Incompatible(name) ==
    CASE name = "Accept" ->
            {i \in DOMAIN reps :
                ~AcceptCompatible(ProactiveAccept(request).h, reps[i].contentType).c}
      [] name = "Accept-Language" ->
            {i \in DOMAIN reps :
                ~AcceptLanguageCompatible(ProactiveAcceptLanguage(request).h,
                                          reps[i].contentLanguage)}
      [] OTHER ->
            {i \in DOMAIN reps :
                ~AcceptCharsetCompatible(ProactiveAcceptCharset(request).h,
                                         reps[i].contentCharset)}

NoneCompatible(name) == Cardinality(Incompatible(name)) = Len(reps)

Strict(name) ==
    CASE name = "Accept" -> negotiator.strictAccept
      [] name = "Accept-Language" -> negotiator.strictAcceptLanguage
      [] OTHER -> negotiator.strictAcceptCharset

StrictHeaders == {"Accept", "Accept-Language", "Accept-Charset"}

\* The call got as far as judging the candidates: there are candidates, the
\* headers parse and so do the candidates' media types.
Judged ==
    /\ pc = "done"
    /\ Len(reps) > 0
    /\ ProactiveAccept(request).err = ""
    /\ ProactiveAcceptLanguage(request).err = ""
    /\ ProactiveAcceptCharset(request).err = ""
    /\ \A i \in DOMAIN reps :
          AcceptCompatible(ProactiveAccept(request).h, reps[i].contentType).err = ""

\* C5: with strict mode disabled for a header, the proactive negotiator with
\* its default chooser does not answer 406 when none of the candidates is
\* acceptable for that header; a request with only Accept-Charset: ascii, a
\* single utf8 candidate and strict charset disabled gets 200 with the
\* candidate.
C5_NoStrictModeNo406 ==
    (/\ Judged
     /\ negotiator.chooser.kind = "httpd"
     /\ \E name \in StrictHeaders : ~Strict(name) /\ NoneCompatible(name)
     /\ \A name \in StrictHeaders : Strict(name) => ~NoneCompatible(name))
        => response.status # StatusNotAcceptable

\* C6: the proactive negotiator takes the not-acceptable branch without
\* invoking the chooser on the candidates if and only if, for at least one
\* header whose strict mode is enabled, the number of candidates whose
\* attribute is not compatible with the header equals the number of
\* candidates; the branch answers with status 406.
C6_StrictFailureIffNoneCompatible ==
    Judged
        => /\ (trace.branch = "notAcceptable" /\ trace.chooserCalls = 0)
                <=> \E name \in StrictHeaders : Strict(name) /\ NoneCompatible(name)
           /\ (trace.branch = "notAcceptable" /\ result.err = "" /\ ~result.panic)
                => response.status = StatusNotAcceptable

C6_Witness ==
    /\ Judged
    /\ Len(reps) = 2
    /\ trace.branch = "notAcceptable" /\ trace.chooserCalls = 0
    /\ trace.strictFailed = "Accept-Charset"
    /\ response.status = StatusNotAcceptable

\* C7: a header the request does not have counts as the wildcard default, so
\* with candidates at hand the strict check of a missing header never sends
\* the request to the not-acceptable branch, whatever the candidates' media
\* types, languages and charsets are.
C7_MissingHeaderNeverFailsStrict ==
    (pc = "done" /\ Len(reps) > 0)
        => \A name \in StrictHeaders :
              name \notin DOMAIN request.Header => trace.strictFailed # name

\* What the chooser answers for the list representations of the candidates.
ListChoice ==
    Choose(negotiator.chooser, request, <<jsonList(reps), xmlList(reps), yamlList(reps)>>)

\* The call took the not-acceptable branch of a negotiator that answers 406
\* with a body.
NotAcceptableWithBody ==
    /\ pc = "done"
    /\ trace.branch = "notAcceptable"
    /\ negotiator.notAcceptableRepresentation

\* C13: in the not-acceptable branch with a body enabled the default list
\* constructor is used exactly when the chooser applied to the list
\* representations returns "no choice"; when that chooser call returns an
\* error, Negotiate returns the error, writes no response and does not use the
\* default list constructor.
C13_DefaultListOnlyOnNoChoice ==
    NotAcceptableWithBody
        => /\ trace.listChooserCalls = 1
           /\ trace.usedDefault
                <=> (ListChoice.err = "" /\ ~ListChoice.panic /\ ListChoice.idx = 0)
           /\ ListChoice.err # ""
                => /\ result.err = ListChoice.err
                   /\ response = NoResponse
                   /\ ~trace.usedDefault
           /\ (trace.usedDefault /\ result.err = "")
                => /\ response.status = StatusNotAcceptable
                   /\ HeaderOf(response, "Content-Type") = jsonList(reps).contentType

C13_Witness ==
    /\ NotAcceptableWithBody
    /\ negotiator.chooser.kind = "custom"
    /\ trace.chooserCalls = 1
    /\ ListChoice.err = "" /\ ListChoice.idx = 0
    /\ trace.usedDefault
    /\ response.status = StatusNotAcceptable

\* The chooser fails on the list representations and Negotiate returns its
\* error.
C13_ErrorReached ==
    /\ NotAcceptableWithBody
    /\ ListChoice.err # ""
    /\ result.err = ListChoice.err

(***************************************************************************)
(* Concurrent calls of Negotiate on one proactive negotiator.  Each call   *)
(* has its own request, candidates and response writer; the calls share    *)
(* the negotiator and the package-level default headers.  A call that      *)
(* finds no Accept, Accept-Language or Accept-Charset header takes the     *)
(* package-level default: its slice shares the array of the default, and   *)
(* MediaRanges, LanguageRanges and CharsetRanges sort the slice they are   *)
(* called on in place.  A call takes three steps: it reads the headers, it *)
(* judges the candidates, it decides and responds.                         *)
(***************************************************************************)
MaxCalls == 2

Calls == 1..MaxCalls

ConcurrentNegotiators ==
    {ProactiveNew(FALSE, FALSE, FALSE, FALSE, HTTPD),
     ProactiveNew(TRUE, TRUE, TRUE, FALSE, [kind |-> "custom", ret |-> 1])}

ConcurrentRequests ==
    {[URL |-> URLax, IsCreation |-> FALSE, Header |-> RequestHeaders(h)] :
        h \in {[n \in {"Accept"} |-> <<>>],
               [n \in {"Accept"} |-> <<ApplicationJSON>>],
               [n \in {"Accept-Charset"} |-> <<RangeText("ascii", "")>>]}}

ConcurrentCandidates ==
    {<<>>,
     <<Rep(TextHTML, "en", "utf8", <<>>, URLax, <<>>, Dec(1, 0), 3)>>,
     <<Rep(TextHTML, "en", "utf8", <<>>, URLax, <<>>, Dec(1, 0), 3),
       Rep(ApplicationJSON, "fr", "ascii", <<>>, URLax, <<>>, Dec(1, 0), 3)>>,
     <<Rep(BadText, "en", "ascii", <<>>, URLax, <<>>, Dec(1, 0), 1)>>}

\* The local variables of a call: the three headers (a slice and whether it
\* shares the array of the package-level default), the counts of the loop and
\* the trace of the call.
NoLocals ==
    [accept         |-> [shared |-> FALSE, h |-> <<>>],
     acceptLanguage |-> [shared |-> FALSE, h |-> <<>>],
     acceptCharset  |-> [shared |-> FALSE, h |-> <<>>],
     counts         |-> [err |-> "", ac |-> 0, alc |-> 0, acc |-> 0],
     trace          |-> ProactiveTrace]

InitConcurrent ==
    /\ pc = [p \in Calls |-> "ready"]
    /\ negotiator \in ConcurrentNegotiators
    /\ request \in [Calls -> ConcurrentRequests]
    /\ reps \in [Calls -> ConcurrentCandidates]
    /\ response = [p \in Calls |-> NoResponse]
    /\ result = [p \in Calls |-> [err |-> "", panic |-> FALSE]]
    /\ trace = [p \in Calls |-> NoLocals]
    /\ defaults = PackageDefaults

\* Call p returns with the outcome o.
Finish(p, o) ==
    /\ response' = [response EXCEPT ![p] = o.response]
    /\ result' = [result EXCEPT ![p] = [err |-> o.err, panic |-> o.panic]]
    /\ trace' = [trace EXCEPT ![p].trace = o.trace]
    /\ pc' = [pc EXCEPT ![p] = "done"]

\* The elements of a header a call holds: those of the package-level default
\* as they are now when the slice shares its array.
Held(local, name) == IF local.shared THEN defaults[name] ELSE local.h

\* Call p answers an empty candidate list, or reads the three headers.
CallParse(p) ==
    /\ pc[p] = "ready"
    /\ \E a  \in {ProactiveAccept(request[p])},
          al \in {ProactiveAcceptLanguage(request[p])},
          ac \in {ProactiveAcceptCharset(request[p])} :
          IF Len(reps[p]) = 0 THEN Finish(p, noContent)
          ELSE IF a.err # "" THEN Finish(p, Outcome(a.err, FALSE, NoResponse, ProactiveTrace))
          ELSE IF al.err # "" THEN Finish(p, Outcome(al.err, FALSE, NoResponse, ProactiveTrace))
          ELSE IF ac.err # "" THEN Finish(p, Outcome(ac.err, FALSE, NoResponse, ProactiveTrace))
          ELSE /\ trace' = [trace EXCEPT
                    ![p].accept = [shared |-> "Accept" \notin DOMAIN request[p].Header,
                                   h |-> a.h],
                    ![p].acceptLanguage =
                        [shared |-> "Accept-Language" \notin DOMAIN request[p].Header,
                         h |-> al.h],
                    ![p].acceptCharset =
                        [shared |-> "Accept-Charset" \notin DOMAIN request[p].Header,
                         h |-> ac.h]]
               /\ pc' = [pc EXCEPT ![p] = "parsed"]
               /\ UNCHANGED <<response, result>>
    /\ UNCHANGED <<negotiator, request, reps, defaults>>

\* Call p runs the loop over its candidates.  Every Compatible call sorts the
\* slice of its header in place; the loop returns from the first content type
\* that does not parse, before it looks at the language and the charset.
CallJudge(p) ==
    /\ pc[p] = "parsed"
    /\ \E l \in {trace[p]} :
       \E counts \in {ProactiveCounts(Held(l.accept, "Accept"),
                                      Held(l.acceptLanguage, "AcceptLanguage"),
                                      Held(l.acceptCharset, "AcceptCharset"), reps[p])} :
       \E first \in {AcceptCompatible(Held(l.accept, "Accept"), reps[p][1].contentType)} :
          /\ defaults' =
                [Accept |->
                    IF l.accept.shared THEN MediaRanges(defaults.Accept)
                    ELSE defaults.Accept,
                 AcceptLanguage |->
                    IF l.acceptLanguage.shared /\ first.err = ""
                    THEN LanguageRanges(defaults.AcceptLanguage)
                    ELSE defaults.AcceptLanguage,
                 AcceptCharset |->
                    IF l.acceptCharset.shared /\ first.err = ""
                    THEN CharsetRanges(defaults.AcceptCharset)
                    ELSE defaults.AcceptCharset]
          /\ IF counts.err # ""
             THEN Finish(p, Outcome(counts.err, FALSE, NoResponse, ProactiveTrace))
             ELSE /\ trace' = [trace EXCEPT
                       ![p].counts = counts,
                       ![p].accept.h = MediaRanges(l.accept.h),
                       ![p].acceptLanguage.h = LanguageRanges(l.acceptLanguage.h),
                       ![p].acceptCharset.h = CharsetRanges(l.acceptCharset.h)]
                  /\ pc' = [pc EXCEPT ![p] = "judged"]
                  /\ UNCHANGED <<response, result>>
    /\ UNCHANGED <<negotiator, request, reps>>

\* Call p applies the strict checks, chooses and responds.
CallRespond(p) ==
    /\ pc[p] = "judged"
    /\ \E o \in {ProactiveDecide(negotiator, request[p], reps[p], trace[p].counts)} :
          Finish(p, o)
    /\ UNCHANGED <<negotiator, request, reps, defaults>>

NextConcurrent == \E p \in Calls : CallParse(p) \/ CallJudge(p) \/ CallRespond(p)

SpecConcurrent == InitConcurrent /\ [][NextConcurrent]_vars

\* Every call that has returned answered as it does when it runs alone, and
\* the package-level defaults are as they were.
AnswersAsAlone ==
    /\ defaults = PackageDefaults
    /\ \A p \in Calls :
          pc[p] = "done"
              => \E alone \in {ProactiveNegotiate(negotiator, request[p], reps[p])} :
                    /\ response[p] = alone.response
                    /\ result[p] = [err |-> alone.err, panic |-> alone.panic]
                    /\ trace[p].trace = alone.trace

\* C14: negotiators are safe for concurrent use across distinct requests: no
\* step of a call changes the negotiator or the package-level default Accept,
\* Accept-Language and Accept-Charset values, and in every interleaving of
\* calls with distinct requests and response writers each call answers as it
\* does when it runs alone.
C14_ConcurrentCallsIndependent ==
    /\ []AnswersAsAlone
    /\ [][negotiator' = negotiator /\ defaults' = defaults]_vars

\* A call returned 200 while another, with a different request, is between
\* its steps, both having taken the package-level default Accept-Language.
C14_Witness ==
    \E p, q \in Calls :
        /\ pc[p] = "done" /\ pc[q] = "judged"
        /\ request[p] # request[q]
        /\ trace[p].acceptLanguage.shared /\ trace[q].acceptLanguage.shared
        /\ response[p].status = StatusOK
        /\ response[q] = NoResponse

(***************************************************************************)
(* The header primitives as a state machine: one call of one function of   *)
(* package header.  request holds the function and its arguments, result   *)
(* what the call returned (for FeatureSet.Add, the set after the call).    *)
(***************************************************************************)
MaxElements == 2

TextHTMLHalf == MediaText("text", "html", [k \in {"q"} |-> "0.5"])

TextHTMLLevelHalf == MediaText("text", "html", [k \in {"level", "q"} |->
                                   IF k = "q" THEN "0.5" ELSE "1"])

UpperTextHTML == MediaText("TEXT", "HTML", NoParams)

TextAny == MediaText("text", "*", NoParams)

TextAnyOne == MediaText("text", "*", [k \in {"q"} |-> "1.0"])

AnyAny == MediaText("*", "*", NoParams)

AnyAnyMost == MediaText("*", "*", [k \in {"q"} |-> "0.8"])

\* The texts of media ranges, all of which parse.
MediaRangeTexts ==
    {TextHTML, TextHTMLHalf, TextHTMLLevel("1"), TextHTMLLevelHalf, UpperTextHTML,
     TextAny, TextAnyOne, TextAnyHalf, AnyAny, AnyAnyMost, ApplicationJSON}

\* The texts of media types.
MediaTypeTexts ==
    {TextHTML, TextHTMLHalf, TextHTMLLevel("1"), TextHTMLLevel("2"), TextHTMLLevelHalf,
     UpperTextHTML, ApplicationJSON, BadText, EmptyText}

\* Accept headers of seven media ranges: in the first, text/html and
\* application/json have the same quality value and precedence; in the
\* second no two ranges have.
LongAcceptHeaders ==
    {<<TextHTMLHalf, TextHTML, AnyAnyMost, TextAny, ApplicationJSON, AnyAny, TextAnyHalf>>,
     <<TextHTMLHalf, TextHTML, AnyAnyMost, TextAny, TextHTMLLevelHalf, AnyAny, TextAnyHalf>>}

ShortAcceptHeaders ==
    SeqsUpTo({TextHTML, TextHTMLHalf, TextAnyOne, TextHTMLTiny, TextHTMLZero, ApplicationJSON},
             MaxElements)

FeatureTags == {"foo", "FOO", "bar", "zap"}

FeatureValues == {<<>>, <<"bar">>, <<"1", "5">>}

\* Feature sets as AsFeatureSets builds them: no two tags equal each other.
FeatureSets ==
    {EmptyFeatureSet,
     [t \in {"foo"} |-> <<>>],
     [t \in {"foo"} |-> <<"bar">>],
     [t \in {"foo", "bar"} |-> IF t = "foo" THEN <<"1", "5">> ELSE <<>>]}

Predicate(kind, tag, v, l, h) ==
    [kind |-> kind, tag |-> tag, v |-> v, l |-> l, h |-> h, bag |-> <<>>, t |-> "", f |-> ""]

\* The element of a feature list: a predicate or a bag of predicates with the
\* texts of its true-improvement and false-degradation.
ListElement(p, t, f) == [p EXCEPT !.t = t, !.f = f]

Bag(predicates) ==
    [kind |-> "bag", tag |-> "", v |-> "", l |-> "", h |-> "", bag |-> predicates,
     t |-> "", f |-> ""]

FeatureListElements ==
    {ListElement(Predicate("exists", "foo", "", "", ""), "", ""),
     ListElement(Predicate("exists", "bar", "", "", ""), "1.5", "0.5"),
     ListElement(Predicate("absent", "bar", "", "", ""), "0.8", "0.5"),
     ListElement(Predicate("absent", "zap", "", "", ""), "", ""),
     ListElement(Predicate("equals", "foo", "bar", "", ""), "", "0.8"),
     ListElement(Predicate("notEquals", "foo", "bar", "", ""), "0.5", ""),
     ListElement(Predicate("within", "foo", "", "2", "5"), "", "0.5"),
     ListElement(Bag(<<Predicate("exists", "zap", "", "", ""),
                       Predicate("absent", "bar", "", "", "")>>), "0.8", "0.5")}

\* The supported and unsupported feature sets a list is evaluated against.
FeatureSetPairs ==
    {<<EmptyFeatureSet, EmptyFeatureSet>>,
     <<[t \in {"foo"} |-> <<"bar">>], [t \in {"bar"} |-> <<>>]>>,
     <<[t \in {"foo", "bar"} |-> IF t = "foo" THEN <<"1", "5">> ELSE <<>>], EmptyFeatureSet>>}

\* The range predicates foo=[2-5], foo=[0-5], foo=[-5], bar=[0-2] and zap=[0-7].
RangePredicates ==
    {Predicate("within", "foo", "", "2", "5"),
     Predicate("within", "foo", "", "0", "5"),
     Predicate("within", "foo", "", "", "5"),
     Predicate("within", "bar", "", "0", "2"),
     Predicate("within", "zap", "", "0", "7")}

\* Ranges of the three kinds, the wildcard among them, and the targets they
\* are tested against.
LanguageRangeTexts == {RangeText("*", ""), RangeText("*", "0.5"), RangeText("fr", "")}

LanguageTargets == {"en", "en-US", "fr", "FR", "zippy", ""}

CharsetRangeTexts == {RangeText("*", ""), RangeText("*", "0.5"), RangeText("utf-8", "")}

CharsetTargets == {"utf-8", "UTF-8", "ascii", "zippy", ""}

ContentCodingRangeTexts == {RangeText("*", ""), RangeText("*", "0.5"), RangeText("gzip", "")}

ContentCodingTargets == {"gzip", "GZIP", "identity", "br", "zippy", ""}

\* The feature expressions foo, !bar, foo=1, foo={5}, FOO={7}, bar!=2 and *.
ExpressionTexts ==
    {ExpressionText(FALSE, "foo", "", "", FALSE),
     ExpressionText(TRUE, "bar", "", "", FALSE),
     ExpressionText(FALSE, "foo", "=", "1", FALSE),
     ExpressionText(FALSE, "foo", "=", "5", TRUE),
     ExpressionText(FALSE, "FOO", "=", "7", TRUE),
     ExpressionText(FALSE, "bar", "!=", "2", FALSE),
     ExpressionText(FALSE, "*", "", "", FALSE)}

\* Header values for the sorted accessors, some of them not in the order of
\* preference.
RangesAcceptHeaders == {<<TextHTML>>, <<TextHTML, TextHTMLHalf>>, <<TextHTMLHalf, TextHTML>>}

RangesAcceptCharsetHeaders ==
    AcceptCharsetHeaders \cup {<<RangeText("ascii", "0.5"), RangeText("UTF8", "")>>}

RangesAcceptEncodingHeaders ==
    AcceptEncodingHeaders \cup {<<RangeText("identity", "0.5"), RangeText("gzip", "1.0")>>}

HeaderCalls ==
    [op : {"Compatible"}, mediaRange : MediaRangeTexts, mediaType : MediaTypeTexts]
    \cup [op : {"Precedence"}, mediaRange : MediaRangeTexts]
    \cup [op : {"MediaRanges"}, accept : ShortAcceptHeaders \cup LongAcceptHeaders]
    \cup [op : {"Add"}, s : FeatureSets, tag : FeatureTags, values : FeatureValues]
    \cup [op : {"Evaluate"}, predicate : RangePredicates, supported : FeatureSets]
    \cup [op : {"RangeCompatible"}, kind : {"language"}, range : LanguageRangeTexts,
           target : LanguageTargets]
    \cup [op : {"RangeCompatible"}, kind : {"charset"}, range : CharsetRangeTexts,
           target : CharsetTargets]
    \cup [op : {"RangeCompatible"}, kind : {"coding"}, range : ContentCodingRangeTexts,
           target : ContentCodingTargets]
    \cup [op : {"AsFeatureSets"}, features : SeqsUpTo(ExpressionTexts, MaxElements)]
    \cup [op : {"Ranges"}, header : {"Accept"}, values : RangesAcceptHeaders]
    \cup [op : {"Ranges"}, header : {"Accept-Language"}, values : AcceptLanguageHeaders]
    \cup [op : {"Ranges"}, header : {"Accept-Charset"}, values : RangesAcceptCharsetHeaders]
    \cup [op : {"Ranges"}, header : {"Accept-Encoding"}, values : RangesAcceptEncodingHeaders]
    \cup {[op |-> "QualityDegradation", features |-> fl, supported |-> sets[1],
           unsupported |-> sets[2]] :
             fl \in SeqsUpTo(FeatureListElements, MaxElements), sets \in FeatureSetPairs}

NoNegotiator == [kind |-> "none"]

InitHeader ==
    /\ pc = "ready"
    /\ negotiator = NoNegotiator
    /\ request \in HeaderCalls
    /\ reps = <<>>
    /\ response = NoResponse
    /\ result = NoResult
    /\ trace = NoTrace
    /\ defaults = PackageDefaults

\* The orders sort.Slice may leave the media ranges at the indexes of S in:
\* every order in which no range comes before one that is less than it.
RECURSIVE MediaRangeOrders(_, _)
MediaRangeOrders(a, S) ==
    IF S = {} THEN {<<>>}
    ELSE UNION {{<<i>> \o o : o \in MediaRangeOrders(a, S \ {i})} :
                    i \in {i \in S : \A j \in S : ~MediaRangeLess(a[j], a[i])}}

\* The order of the stable sort: ranges neither of which is less than the
\* other stay in the order of their indexes.
StableOrder(a) ==
    CHOOSE o \in MediaRangeOrders(a, DOMAIN a) :
        \A i, j \in DOMAIN o :
            (i < j /\ ~MediaRangeLess(a[o[i]], a[o[j]])) => o[i] < o[j]

\* sort.Slice in Accept.MediaRanges.  sort.Slice is not a stable sort: up to
\* six elements every version of the sort is an insertion sort, which leaves
\* the stable order; from seven elements on it may leave any sorted order.
MediaRangesOrders(a) ==
    IF Len(a) < 7 THEN {StableOrder(a)} ELSE MediaRangeOrders(a, DOMAIN a)

Returned(v) ==
    /\ result' = v
    /\ pc' = "done"
    /\ UNCHANGED <<negotiator, request, reps, response, trace, defaults>>

\* NewMediaRange(mediaRange).Compatible(mediaType)
CallCompatible ==
    /\ pc = "ready" /\ request.op = "Compatible"
    /\ Returned(MediaRangeCompatible(parseMediaRange(request.mediaRange).mr,
                                     request.mediaType))

\* NewMediaRange(mediaRange).Precedence()
CallPrecedence ==
    /\ pc = "ready" /\ request.op = "Precedence"
    /\ Returned(Precedence(parseMediaRange(request.mediaRange).mr))

\* NewAccept(accept).MediaRanges(): the index in the header of each range
\* returned, and the ranges.
CallMediaRanges ==
    /\ pc = "ready" /\ request.op = "MediaRanges"
    /\ \E a \in {NewAccept(request.accept).h} :
       \E o \in MediaRangesOrders(a) :
          Returned([order |-> o, ranges |-> [i \in DOMAIN o |-> a[o[i]]]])

\* s.Add(tag, values...)
CallAdd ==
    /\ pc = "ready" /\ request.op = "Add"
    /\ Returned(FeatureSetAdd(request.s, request.tag, request.values))

\* NewFeatureList(features).QualityDegradation(supported, unsupported)
CallQualityDegradation ==
    /\ pc = "ready" /\ request.op = "QualityDegradation"
    /\ Returned(QualityDegradation(NewFeatureList(request.features).v,
                                   request.supported, request.unsupported))

\* The header value built from the values of a header of the request.
NewHeader(name, values) ==
    CASE name = "Accept" -> NewAccept(values)
      [] name = "Accept-Language" -> NewAcceptLanguage(values)
      [] name = "Accept-Charset" -> NewAcceptCharset(values)
      [] OTHER -> NewAcceptEncoding(values)

\* What the sorted accessor of a header value returns.
SortedRanges(name, h) ==
    CASE name = "Accept" -> MediaRanges(h)
      [] name = "Accept-Language" -> LanguageRanges(h)
      [] name = "Accept-Charset" -> CharsetRanges(h)
      [] OTHER -> CodingRanges(h)

\* h.MediaRanges(), h.LanguageRanges(), h.CharsetRanges() or h.CodingRanges()
\* on a header value h that parsed; Compatible calls the same accessor.  The
\* accessor sorts the slice of the header itself and returns it: the
\* elements h holds after the call are the ones returned.
CallRanges ==
    /\ pc = "ready" /\ request.op = "Ranges"
    /\ \E h \in {NewHeader(request.header, request.values)} :
          Returned([err |-> h.err, before |-> h.h,
                    after |-> SortedRanges(request.header, h.h),
                    returned |-> SortedRanges(request.header, h.h)])

\* NewAcceptFeatures(features).AsFeatureSets()
CallAsFeatureSets ==
    /\ pc = "ready" /\ request.op = "AsFeatureSets"
    /\ Returned(AsFeatureSets([i \in DOMAIN request.features |->
                                  ParsedExpression(request.features[i])]))

\* predicate.Evaluate(supported, unsupported) of a range predicate
CallEvaluate ==
    /\ pc = "ready" /\ request.op = "Evaluate"
    /\ Returned(PredicateEvaluate(request.predicate, request.supported, EmptyFeatureSet))

\* NewLanguageRange(range).Compatible(target), and the same of a charset
\* range and of a content coding range.
CallRangeCompatible ==
    /\ pc = "ready" /\ request.op = "RangeCompatible"
    /\ \/ /\ request.kind = "language"
          /\ \E lr \in {NewLanguageRange(request.range)} :
                Returned([err |-> lr.err,
                          compatible |-> lr.err = ""
                                            /\ LanguageRangeCompatible(lr.v, request.target)])
       \/ /\ request.kind = "charset"
          /\ \E c \in {NewCharsetRange(request.range)} :
                Returned([err |-> c.err,
                          compatible |-> c.err = ""
                                            /\ CharsetRangeCompatible(c.v, request.target)])
       \/ /\ request.kind = "coding"
          /\ \E cc \in {NewContentCodingRange(request.range)} :
                Returned([err |-> cc.err,
                          compatible |-> cc.err = ""
                                            /\ ContentCodingRangeCompatible(cc.v, request.target)])

NextHeader ==
    \/ CallCompatible
    \/ CallRangeCompatible
    \/ CallEvaluate
    \/ CallAsFeatureSets
    \/ CallRanges
    \/ CallPrecedence
    \/ CallMediaRanges
    \/ CallAdd
    \/ CallQualityDegradation

SpecHeader == InitHeader /\ [][NextHeader]_vars

(***************************************************************************)
(* Properties of the header primitives.                                    *)
(***************************************************************************)
Called(op) == pc = "done" /\ request.op = op

\* Type and subtype match without regard to case, a wildcard of the range
\* matching anything, and every parameter of the range other than q is on
\* the media type with the same value.
CompatibleAsStated(mr, mt) ==
    /\ ToLower(mr.t) = ToLower(mt.t) \/ mr.t = "*"
    /\ ToLower(mr.subT) = ToLower(mt.subT) \/ mr.subT = "*"
    /\ \A k \in DOMAIN mr.params \ {"q"} :
          k \in DOMAIN mt.params /\ mt.params[k] = mr.params[k]

\* C16: a media range is compatible with a media type if and only if type and
\* subtype match case-insensitively (with wildcard tolerance) and every non-q
\* parameter of the range is present with an equal value on the media type;
\* the q parameter of the range is never required on the media type.
C16_CompatibleIffMatching ==
    (Called("Compatible") /\ result.err = "")
        => (result.c <=> CompatibleAsStated(request.mediaRange, request.mediaType))

\* 2 for a concrete type and subtype, 1 for a wildcard subtype only, 0 for
\* both wildcards.
PrecedenceBase(mr) ==
    IF mr.t = "*" /\ mr.subT = "*" THEN 0 ELSE IF mr.subT = "*" THEN 1 ELSE 2

\* C17 as stated: the precedence of a media range is its base plus the number
\* of its parameters other than q; q never contributes.
C17_PrecedenceLeavesOutQ ==
    Called("Precedence")
        => result = PrecedenceBase(request.mediaRange)
                      + Cardinality(DOMAIN request.mediaRange.params \ {"q"})

\* C17: the precedence of a media range is its base (2 for a concrete type and
\* subtype, 1 for a wildcard subtype only, 0 for both wildcards) plus the
\* number of all its parameters, the q parameter counted among them.
C17_PrecedenceCountsEveryParameter ==
    Called("Precedence")
        => result = PrecedenceBase(request.mediaRange)
                      + Cardinality(DOMAIN request.mediaRange.params)

\* The precedence of text/html;level=1;q=0.5 was taken: it is 4.
C17_Witness ==
    /\ Called("Precedence")
    /\ request.mediaRange = TextHTMLLevelHalf
    /\ result = 4

\* The ranges at positions i < j of the result are in the order of the claim:
\* the greater rounded quality value first, among equal ones the greater
\* precedence first, and among equal ones the order of the header.
InStatedOrder(i, j) ==
    LET f == result.ranges[i]
        s == result.ranges[j]
    IN  \/ QVGreaterThan(f.qValue, s.qValue)
        \/ /\ QVEquals(f.qValue, s.qValue)
           /\ \/ Precedence(f) > Precedence(s)
              \/ Precedence(f) = Precedence(s) /\ result.order[i] < result.order[j]

ShortHeadersSortedStably ==
    (Called("MediaRanges") /\ Len(request.accept) < 7)
        => \A i, j \in DOMAIN result.ranges : i < j => InStatedOrder(i, j)

\* FeatureSet.Add as the claim states it: the values are appended to the
\* entry of the tag equal to the given one, or a new entry holds them.
FeatureSetAddAsStated(s, tag, values) ==
    IF \E t \in DOMAIN s : FeatureTagEquals(t, tag)
    THEN [t \in DOMAIN s |-> IF FeatureTagEquals(t, tag) THEN s[t] \o values ELSE s[t]]
    ELSE [t \in DOMAIN s \cup {tag} |-> IF t = tag THEN values ELSE s[t]]

\* C19: FeatureSet.Add(tag, values...) appends the given values to the values
\* of the entry whose tag equals tag case-insensitively, which are kept, and
\* changes no other entry; without such an entry it creates one for tag that
\* holds exactly the given values.
C19_AddAppendsOrCreates ==
    Called("Add") => result = FeatureSetAddAsStated(request.s, request.tag, request.values)

\* The product of the false-degradation of every element of the list.
RECURSIVE FalseDegradationProduct(_)
FalseDegradationProduct(fl) ==
    IF fl = <<>> THEN Dec(1, 0)
    ELSE DecMul(FalseDegradationProduct(SubSeq(fl, 1, Len(fl) - 1)),
                FalseDegradation(fl[Len(fl)]))

\* The product of the true-improvement of every absent element and of the
\* false-degradation of every other element.
RECURSIVE ProductWithAbsentTrue(_)
ProductWithAbsentTrue(fl) ==
    IF fl = <<>> THEN Dec(1, 0)
    ELSE DecMul(ProductWithAbsentTrue(SubSeq(fl, 1, Len(fl) - 1)),
                IF fl[Len(fl)].kind = "absent"
                THEN TrueImprovement(fl[Len(fl)])
                ELSE FalseDegradation(fl[Len(fl)]))

OnEmptySets ==
    /\ Called("QualityDegradation")
    /\ request.supported = EmptyFeatureSet
    /\ request.unsupported = EmptyFeatureSet

\* C20 as stated: against empty supported and unsupported sets the quality
\* degradation of a feature list is the product of the true-improvement of
\* its absent elements and of the false-degradation of its other elements.
C20_AbsentHoldsOnEmptySets ==
    OnEmptySets => result = ProductWithAbsentTrue(request.features)

\* C20: against empty supported and unsupported sets every predicate, absent
\* among them, evaluates false, and the quality degradation of a feature list
\* is the product of the false-degradation of every one of its elements.
C20_FalseDegradationOnEmptySets ==
    OnEmptySets => result = FalseDegradationProduct(request.features)

\* The list !bar;+0.8-0.5 was evaluated against empty sets: it degrades the
\* quality by 0.5.
C20_Witness ==
    /\ OnEmptySets
    /\ Len(request.features) = 1
    /\ request.features[1].kind = "absent"
    /\ request.features[1].t = "0.8"
    /\ result = Dec(5, 1)

(***************************************************************************)
(* Base.Bytes and Base.FromBytes as a state machine: a value is serialised *)
(* by Bytes, and the bytes are handed to FromBytes of the same             *)
(* representation.  request holds the representation and the value, trace  *)
(* what Bytes returned, result what FromBytes returned.                    *)
(***************************************************************************)
MaxCodings == 2

BaseContentTypes ==
    {ApplicationJSON, ApplicationXML, ApplicationYAML, TextHTML, UpperTextHTML, ImagePNG}

ContentCodings == {"gzip", "GZIP", "compress", "deflate", "identity", "br"}

BaseValues == {"a", "b"}

InitBase ==
    /\ pc = "ready"
    /\ negotiator = NoNegotiator
    /\ \E ct \in BaseContentTypes, ce \in SeqsUpTo(ContentCodings, MaxCodings),
          v \in BaseValues :
          request = [rep |-> Rep(ct, "", "", ce, URLay, <<>>, Dec(1, 0), 1), value |-> v]
    /\ reps = <<>>
    /\ response = NoResponse
    /\ result = NoResult
    /\ trace = NoTrace
    /\ defaults = PackageDefaults

\* b, err := rep.Bytes(value)
CallBytes ==
    /\ pc = "ready"
    /\ trace' = BaseBytes(request.rep, request.value)
    /\ pc' = IF trace'.err = "" THEN "serialised" ELSE "done"
    /\ UNCHANGED <<negotiator, request, reps, response, result, defaults>>

\* err = rep.FromBytes(b, &in)
CallFromBytes ==
    /\ pc = "serialised"
    /\ result' = BaseFromBytes(request.rep, trace.b)
    /\ pc' = "done"
    /\ UNCHANGED <<negotiator, request, reps, response, trace, defaults>>

NextBase == CallBytes \/ CallFromBytes

SpecBase == InitBase /\ [][NextBase]_vars

\* The media type has a marshaller and an unmarshaller, and there are one or
\* more content codings, every one of them registered.
RegisteredCodings ==
    /\ SupportedContentType(request.rep.contentType)
    /\ Len(request.rep.contentEncoding) >= 1
    /\ \A i \in DOMAIN request.rep.contentEncoding :
          ToLower(request.rep.contentEncoding[i]) \in defaultEncodingWriters

\* The value wrapped in the codings of the sequence, the first coding
\* applied first and the last one outermost.
RECURSIVE CodedInOrder(_, _)
CodedInOrder(encodings, b) ==
    IF encodings = <<>> THEN b
    ELSE Stream(Format(encodings[Len(encodings)]),
                CodedInOrder(SubSeq(encodings, 1, Len(encodings) - 1), b))

\* C21: for a representation with a registered media type and one or more
\* registered content codings, Bytes applies the codings in sequence order
\* and completes each of them, and FromBytes applied to the output of Bytes
\* succeeds and restores the original value.
C21_FromBytesInvertsBytes ==
    /\ (pc # "ready" /\ RegisteredCodings)
          => /\ trace.err = ""
             /\ trace.b = CodedInOrder(request.rep.contentEncoding,
                              Marshalled(Syntax(request.rep.contentType), request.value))
    /\ (pc = "done" /\ RegisteredCodings)
          => /\ result.err = "" /\ ~result.panic
             /\ result.v = request.value

\* With one registered coding the value comes back.
SingleCodingRestored ==
    (pc = "done" /\ RegisteredCodings /\ Len(request.rep.contentEncoding) = 1)
        => (result.err = "" /\ ~result.panic /\ result.v = request.value)

\* C22: the header data types are immutable after construction: a call of a
\* preference-sorted accessor (MediaRanges, CharsetRanges, LanguageRanges,
\* CodingRanges) or of Compatible leaves the element sequence of the header
\* value, and so its String() output, unchanged.
C22_AccessorsLeaveHeaderUnchanged ==
    (Called("Ranges") /\ result.err = "") => result.after = result.before

\* The value v is among the values the set records for the tag.
Recorded(set, tag, v) ==
    \E t \in DOMAIN set :
        FeatureTagEquals(t, tag) /\ \E k \in DOMAIN set[t] : set[t][k] = v

\* C23: AsFeatureSets projects every tag=v and every tag={v} expression by
\* adding (tag, v) to the supported set, and every tag!=v expression by adding
\* tag to the supported set and (tag, v) to the unsupported set, so that v is
\* afterwards among the values recorded for tag in the respective set.
C23_ValuesProjected ==
    Called("AsFeatureSets")
        => \A i \in DOMAIN request.features :
              LET e == request.features[i] IN
              /\ (~e.neg /\ e.op = "=") => Recorded(result.supported, e.tag, e.value)
              /\ (~e.neg /\ e.op = "!=")
                    => /\ FeatureSetContains(result.supported, e.tag)
                       /\ Recorded(result.unsupported, e.tag, e.value)

\* The numeric values the set records for the tag.
NumericValues(set, tag) ==
    {Atoi(FeatureSetValues(set, tag).v[i]) :
        i \in {j \in DOMAIN FeatureSetValues(set, tag).v :
                  IsNumeric(FeatureSetValues(set, tag).v[j])}}

\* The range holds as stated: the tag is supported, has a numeric value, and
\* the greatest of its numeric values lies in the range.
RangeHoldsAsStated(w, set) ==
    /\ FeatureSetContains(set, w.tag)
    /\ NumericValues(set, w.tag) # {}
    /\ \E n \in NumericValues(set, w.tag) :
          /\ \A m \in NumericValues(set, w.tag) : m <= n
          /\ Atoi(w.l) <= n /\ n <= Atoi(w.h)

\* C24: a range predicate tag=[lo-hi] evaluates true if and only if the
\* maximum numeric value of the tag in the supported set lies within
\* [lo, hi]; a tag that is not supported, or that has no numeric value,
\* matches no range.
C24_RangeIffMaximumWithin ==
    Called("Evaluate")
        => (result <=> RangeHoldsAsStated(request.predicate, request.supported))

\* A range over a tag that is not supported never holds.
RangeOfUnsupportedTagFails ==
    (Called("Evaluate") /\ ~FeatureSetContains(request.supported, request.predicate.tag))
        => ~result

\* C25: a wildcard range of kind language, charset or content-coding is
\* compatible with every target value.
C25_WildcardCompatibleWithEveryTarget ==
    (Called("RangeCompatible") /\ result.err = "" /\ request.range.name = "*")
        => result.compatible

\* The wildcard charset range is compatible with every charset.
WildcardCharsetCompatible ==
    (Called("RangeCompatible") /\ result.err = "" /\ request.range.name = "*"
        /\ request.kind = "charset")
        => result.compatible

\* A range that is not the wildcard is compatible with a target that equals
\* it up to case.
ConcreteRangeCompatible ==
    (Called("RangeCompatible") /\ result.err = ""
        /\ ToLower(request.target) = request.range.name)
        => result.compatible

(***************************************************************************)
(* Properties of the filters of the Apache httpd chooser                   *)
(***************************************************************************)
\* The steps of the call in which filter k was applied and did not fail.
StepsOf(k) ==
    IF pc = "done" /\ negotiator = HTTPD
    THEN {trace.steps[i] : i \in {j \in DOMAIN trace.steps :
                                     trace.steps[j].k = k /\ trace.steps[j].out.err = ""}}
    ELSE {}

\* The candidates of a set, by their index in the call.
Indices(variants) == {variants[i].idx : i \in DOMAIN variants}

HTMLWithLevel(v) ==
    /\ v.rep.contentType.kind = "ok"
    /\ ToLower(v.rep.contentType.t) = "text" /\ ToLower(v.rep.contentType.subT) = "html"
    /\ "level" \in DOMAIN v.rep.contentType.params

LevelOf(v) == ParseInt(v.rep.contentType.params["level"]).v

\* The text/html candidates of the set that have the highest level.
HighestLevel(variants) ==
    {variants[i].idx : i \in {j \in DOMAIN variants :
        /\ HTMLWithLevel(variants[j])
        /\ \A m \in DOMAIN variants :
              HTMLWithLevel(variants[m]) => LevelOf(variants[m]) <= LevelOf(variants[j])}}

\* C26: in the best-level step, if any candidate is text/html with a level
\* parameter the set passed on is exactly the text/html candidates with the
\* highest level, and if none is the set is passed on unchanged.
C26_BestLevelKeepsHighest ==
    \A s \in StepsOf(4) :
        IF \E i \in DOMAIN s.in : HTMLWithLevel(s.in[i])
        THEN Indices(s.out.v) = HighestLevel(s.in)
        ELSE s.out.v = s.in

\* The best-level step passes a set without a text/html level on unchanged.
BestLevelWithoutLevelUnchanged ==
    \A s \in StepsOf(4) :
        (~\E i \in DOMAIN s.in : HTMLWithLevel(s.in[i])) => s.out.v = s.in

\* The best-level step is reached with two levels in its set.
TwoLevelsReached ==
    \E s \in StepsOf(4) : \E i, j \in DOMAIN s.in :
        HTMLWithLevel(s.in[i]) /\ HTMLWithLevel(s.in[j]) /\ LevelOf(s.in[i]) < LevelOf(s.in[j])

\* Every candidate of the set can be serialised.
AllSerialise(variants) == \A i \in DOMAIN variants : Bytes(variants[i].rep).err = ""

\* The candidates of the set whose serialised length is the minimum.
MinimumLength(variants) ==
    {variants[i].idx : i \in {j \in DOMAIN variants :
        \A m \in DOMAIN variants : Bytes(variants[j].rep).len <= Bytes(variants[m].rep).len}}

\* C27: the smallest-content-length step keeps exactly the candidates whose
\* serialised length is the minimum over the set it receives, whatever their
\* order, so when all earlier steps tie the chooser returns a candidate of
\* minimum serialised length.
C27_SmallestLengthKept ==
    \A s \in StepsOf(NumFilters) :
        AllSerialise(s.in)
            => /\ Indices(s.out.v) = MinimumLength(s.in)
               /\ result.idx \in MinimumLength(s.in)

\* The step keeps the candidates that are as long as the first one it is given.
SmallestLengthKeepsLengthOfFirst ==
    \A s \in StepsOf(NumFilters) :
        AllSerialise(s.in)
            => Indices(s.out.v)
                  = {s.in[i].idx : i \in {j \in DOMAIN s.in :
                        Bytes(s.in[j].rep).len = Bytes(s.in[1].rep).len}}

\* The step is reached with the longer of two candidates first.
LongerFirstReached ==
    \E s \in StepsOf(NumFilters) :
        /\ AllSerialise(s.in) /\ Len(s.in) = 2
        /\ s.in[1].idx = 1
        /\ Bytes(s.in[1].rep).len > Bytes(s.in[2].rep).len

(***************************************************************************)
(* Properties of Negotiate on its edge cases                               *)
(***************************************************************************)
\* C28: transparent Negotiate called with an empty candidate list terminates
\* normally for every Negotiate header: it returns an error or writes a
\* well-formed response, and never reads the first element of the empty list.
C28_EmptyListTerminatesNormally ==
    (pc = "done" /\ negotiator \in TransparentNegotiators /\ Len(reps) = 0)
        => /\ ~result.panic
           /\ result.err # "" \/ IsListResponse(response) \/ IsChoiceResponse(response)

\* With a candidate list that is not empty the list response reads its first
\* element safely.
NonEmptyListNeverPanics ==
    (pc = "done" /\ negotiator \in TransparentNegotiators /\ Len(reps) > 0
        /\ negotiator.chooser.kind = "rvsa1")
        => ~result.panic

\* C29: in the Apache httpd chooser every filter step, given a non-empty set,
\* returns a non-empty subset of that set or an error, so Choose takes the
\* first element only of a non-empty set and its result is always "no
\* choice", an error, or one of the candidates it was given.
C29_FiltersKeepANonEmptySubset ==
    (pc = "done" /\ negotiator = HTTPD)
        => /\ \A i \in DOMAIN trace.steps :
                 LET s == trace.steps[i] IN
                 /\ Len(s.in) > 0
                 /\ s.out.err = ""
                       => /\ Len(s.out.v) > 0
                          /\ Indices(s.out.v) \subseteq Indices(s.in)
           /\ ~result.panic
           /\ result.idx \in 0..Len(reps)
           /\ result.err # "" => result.idx = 0
           /\ (result.err = "" /\ Len(trace.steps) > 0)
                 => result.idx = First(trace.steps[Len(trace.steps)].out.v).idx

\* Every filter was applied, the last one left more than one candidate and
\* Choose returned the first of them.
C29_Witness ==
    /\ pc = "done" /\ negotiator = HTTPD
    /\ Len(trace.steps) = NumFilters
    /\ Len(trace.steps[NumFilters].out.v) > 1
    /\ result.idx = First(trace.steps[NumFilters].out.v).idx

(***************************************************************************)
(* Negotiate with a response writer that can fail.  Each of the functions   *)
(* that answer (listResponse, choiceResponse, acceptable, notAcceptable)    *)
(* ends with ResponseWriter.Write and returns its error as it is, after the *)
(* headers and the status were written.                                     *)
(***************************************************************************)
ErrWrite == "write"

\* The outcome of a call whose ResponseWriter.Write fails or not.
Written(o, fails) ==
    IF fails /\ o.err = "" /\ ~o.panic /\ o.response.body >= 0
    THEN [o EXCEPT !.err = ErrWrite]
    ELSE o

IsTransparent(n) == "maximumVariantListSize" \in DOMAIN n

InitWriter == Init \/ InitProactive

\* Negotiate of the transparent negotiator
TransparentCall ==
    /\ pc = "ready" /\ IsTransparent(negotiator)
    /\ \E fails \in BOOLEAN :
       \E o \in {Written(TransparentNegotiate(negotiator, request, reps), fails)} :
          /\ response' = o.response
          /\ result' = [err |-> o.err, panic |-> o.panic]
          /\ trace' = o.trace
    /\ pc' = "done"
    /\ UNCHANGED <<negotiator, request, reps, defaults>>

\* Negotiate of the proactive negotiator
ProactiveCall ==
    /\ pc = "ready" /\ ~IsTransparent(negotiator)
    /\ \E fails \in BOOLEAN :
       \E o \in {Written(ProactiveNegotiate(negotiator, request, reps), fails)} :
          /\ response' = o.response
          /\ result' = [err |-> o.err, panic |-> o.panic]
          /\ trace' = o.trace
    /\ pc' = "done"
    /\ UNCHANGED <<negotiator, request, reps, defaults>>

NextWriter == TransparentCall \/ ProactiveCall

SpecWriter == InitWriter /\ [][NextWriter]_vars

\* C30: whenever proactive or transparent Negotiate returns an error that
\* does not come from writing the response body, nothing has been written to
\* the response: no status code, no header and no body.
C30_ErrorLeavesResponseUntouched ==
    (pc = "done" /\ result.err \notin {"", ErrWrite})
        => /\ response.status = 0
           /\ response.header = <<>>
           /\ response.body < 0

\* Negotiate fails on the serialisation of what it was about to answer with,
\* after the chooser was called, and the response is untouched.
C30_Witness ==
    /\ pc = "done"
    /\ result.err \in {"ErrUnsupportedContentType", "ErrUnsupportedContentEncoding"}
    /\ trace.chooserCalls = 1
    /\ response = NoResponse

\* An error of the write itself leaves the status and the headers written.
WriteErrorAfterHeaders ==
    (pc = "done" /\ result.err = ErrWrite) => response.status # 0 /\ response.header # <<>>

====
